---- MODULE Spec2Model ----
(***************************************************************************)
(* Model of the copysec_risk_analyzer pipeline stages:                     *)
(*   - the year-over-year comparator   (src/analyzers/risk_analyzer.py)    *)
(*   - the Item 1A section extractor   (src/extractors/text_extractor.py)  *)
(*   - the risk segmenter              (src/processors/text_extractor.py)  *)
(*                                                                         *)
(* Text is modelled at the level the code looks at it.  The comparator     *)
(* lower-cases and whitespace-splits a text, so a comparator text is the   *)
(* sequence of its whitespace-separated words.  A Python float similarity  *)
(* intersection/union is kept as the exact fraction [num, den]; for word   *)
(* counts below 10^15 the correctly rounded quotient compares with the     *)
(* literal 0.7 exactly as the fraction compares with 7/10.                 *)
(***************************************************************************)
EXTENDS Integers, Sequences, FiniteSets, TLC

VARIABLES
    current_risks,      \* argument of _match_risk_factors / _analyze_content_changes
    previous_risks,     \* argument of _match_risk_factors / _analyze_content_changes
    matches,            \* last value returned by _match_risk_factors, or NoResult
    content_changes,    \* last value returned by _analyze_content_changes, or NotCalled
    text1,              \* first argument of _calculate_similarity
    text2,              \* second argument of _calculate_similarity
    similarity,         \* last value returned by _calculate_similarity, or NotCalled
    text,               \* document text (soup.get_text()) of the filing's HTML file
    raw_section_file,   \* content of raw_section.txt, or NoFile
    section,            \* last value returned by _extract_risk_section, or NoResult
    extract_ret,        \* last value returned by extract_risk_section, or NoResult
    cleaned_text,       \* argument of _process_content, as its '\n\n'-separated paragraphs
    processed,          \* last value returned by _process_content, or NotCalled
    raw_text,           \* argument of the processors' _clean_text
    recleaned,          \* the processors' _clean_text applied to its own result, or NoResult
    content,            \* argument of the extractors' _clean_text (clean_risk_section)
    clean_text,         \* last value returned by the extractors' _clean_text, or NoResult
    reclean_text,       \* the extractors' _clean_text applied to clean_text, or NoResult
    llm_reply,          \* what chat.completions.create does when RiskAnalyzer calls it
    llm_called,         \* whether the last compare_years called chat.completions.create
    comparison,         \* last value returned by RiskAnalyzer.compare_years, or NotCalled
    pc,                 \* position of analyze_company_risks
    probed,             \* years the discovery loop has tried
    available_years,    \* years for which the discovery loop got a filing
    selected,           \* <<year1, year2>> once the user has chosen, <<>> before
    prompts,            \* calls of input() for the two years
    calls,              \* the stage calls made so far, in order, with their outcome
    report,             \* the last message of the run, "" while there is none
    analysis,           \* value returned by GPTAnalyzer.analyze_changes, or NoResult
    request_count,      \* SECClient.request_count
    window_start,       \* SECClient.window_start, in tenths of a second
    last_request_time,  \* SECClient.last_request_time, in tenths of a second
    current_time,       \* current_time of the last _enforce_rate_limit, 0 before the first
    limit_sleep,        \* sleep_time slept at the limit by the last _enforce_rate_limit, else 0
    max_retries,        \* argument of _make_request
    attempt,            \* turns of the retry loop that have failed
    requests_made,      \* calls of requests.get made by _make_request
    wait_times,         \* the wait_time slept after each failed attempt
    response,           \* [state, value]: where _make_request stands and what it returned
    html_files,         \* per year, the content of the filing's .htm file, or NoFile
    downloads,          \* the calls of download_10k made by the run, in order
    download,           \* the last call of download_10k with its requests, or NotCalled
    rf_files,           \* per year directory, its risk_factors.json
    comparison_files,   \* the year directories that hold a risk_comparison.json
    rc_args,            \* <<year1, year2>> of the last RiskComparator.compare_years
    rc_result,          \* last value returned by RiskComparator.compare_years, or NotCalled
    soup,               \* the parsed document given to _extract_raw_section
    invoked,            \* the strategies find_risk_section has called, with their results
    risk_section        \* what find_risk_section returned: an element's position, 0 for None

vars == <<current_risks, previous_risks, matches, content_changes,
          text1, text2, similarity,
          text, raw_section_file, section, extract_ret,
          cleaned_text, processed,
          raw_text, recleaned,
          content, clean_text, reclean_text,
          llm_reply, llm_called, comparison,
          pc, probed, available_years, selected, prompts, calls, report, analysis,
          request_count, window_start, last_request_time, current_time, limit_sleep,
          max_retries, attempt, requests_made, wait_times, response,
          html_files, downloads, download,
          rf_files, comparison_files, rc_args, rc_result,
          soup, invoked, risk_section>>

comparatorVars == <<current_risks, previous_risks, matches, content_changes>>
similarityVars == <<text1, text2, similarity>>
extractorVars  == <<text, raw_section_file, section, extract_ret>>
segmenterVars  == <<cleaned_text, processed>>
cleanerVars    == <<raw_text, recleaned>>
extCleanerVars == <<content, clean_text, reclean_text>>
analyzerVars   == <<llm_reply, llm_called, comparison>>
cliVars        == <<pc, probed, available_years, selected, prompts, calls, report, analysis>>
limiterVars    == <<request_count, window_start, last_request_time, current_time,
                    limit_sleep>>
requestVars    == <<max_retries, attempt, requests_made, wait_times, response>>
fetchVars      == <<html_files, downloads, download>>
strategyVars   == <<soup, invoked, risk_section>>
rcVars         == <<rf_files, comparison_files, rc_args, rc_result>>
restVars       == <<analyzerVars, cliVars, limiterVars, requestVars, fetchVars, rcVars, strategyVars>>
laterVars      == <<cleanerVars, extCleanerVars, restVars>>

NotCalled == [called |-> FALSE]   \* a record-valued result not yet returned
NoResult  == "not called"         \* a sequence-valued result not yet returned
None      == "None"
NoFile    == "no file"

Range(s) == {s[i] : i \in DOMAIN s}

SeqsUpTo(S, n) == UNION {[1..k -> S] : k \in 0..n}

(***************************************************************************)
(* Bounds of the model.                                                    *)
(***************************************************************************)
MaxRisks == 2       \* longest current/previous list of the comparator
MaxWords == 3       \* longest text given to _calculate_similarity alone
NumEntries == 5     \* entries per year in the end-to-end comparison scenario
MaxTextLen == 5     \* longest document text given to the section extractor, in symbols
MaxParas == 3       \* most paragraphs of a cleaned text given to the segmenter
MaxContentLen == 5  \* longest text given to the extractors' _clean_text, in tokens
MaxBlocks == 3      \* most blocks of a raw text given to the processors' _clean_text
MaxPrompts == 2     \* most rejected answers to the prompt for the two years
MaxClock == 12      \* latest reading of time.time(), in tenths of a second
MaxRetriesArg == 4  \* largest max_retries given to _make_request
MaxElems == 5       \* most sibling elements in a parsed document

(***************************************************************************)
(* str.lower() on the words of the model's vocabulary.                     *)
(***************************************************************************)
Lower(w) ==
    CASE w = "Supply" -> "supply"
      [] w = "SUPPLY" -> "supply"
      [] w = "Risk"   -> "risk"
      [] w = "RISK"   -> "risk"
      [] w = "Cyber"  -> "cyber"
      [] OTHER        -> w

\* set(text.lower().split())
WordSet(t) == {Lower(t[i]) : i \in DOMAIN t}

(***************************************************************************)
(* Fractions standing for Python floats.                                   *)
(***************************************************************************)
Frac(n, d) == [num |-> n, den |-> d]
FracGt(a, b) == a.num * b.den > b.num * a.den
FracEq(a, b) == a.num * b.den = b.num * a.den

ThresholdNum == 7
ThresholdDen == 10
Threshold == Frac(ThresholdNum, ThresholdDen)

(***************************************************************************)
(* RiskAnalyzer._calculate_similarity                                      *)
(***************************************************************************)
\* the union taken as len(words1) + len(words2)
SimilaritySumUnion(t1, t2) ==
    LET words1 == WordSet(t1)
        words2 == WordSet(t2)
        intersection == Cardinality(words1 \cap words2)
        union == Cardinality(words1) + Cardinality(words2)
    IN  IF union > 0 THEN Frac(intersection, union) ELSE Frac(0, 1)

\* numerator and denominator exchanged
SimilaritySwapped(t1, t2) ==
    LET words1 == WordSet(t1)
        words2 == WordSet(t2)
        intersection == Cardinality(words1 \cap words2)
        union == Cardinality(words1 \cup words2)
    IN  IF intersection > 0 THEN Frac(union, intersection) ELSE Frac(0, 1)

CalculateSimilarity(t1, t2) ==
    LET words1 == WordSet(t1)
        words2 == WordSet(t2)
        intersection == Cardinality(words1 \cap words2)
        union == Cardinality(words1 \cup words2)
    IN  IF union > 0 THEN Frac(intersection, union) ELSE Frac(0, 1)

(***************************************************************************)
(* RiskAnalyzer._match_risk_factors.  A pair is [curr, prev]: positions in *)
(* current_risks and previous_risks, 0 standing for None.  Python pairs    *)
(* the dict objects themselves; positions keep entries with equal fields   *)
(* apart as object identity does.                                          *)
(***************************************************************************)
\* the inner loop over enumerate(previous_risks), from position i on
RECURSIVE BestScan(_, _, _, _, _, _)
BestScan(curr, prev_risks, used_prev, i, best_idx, best_score) ==
    IF i > Len(prev_risks) THEN best_idx
    ELSE IF i \in used_prev
         THEN BestScan(curr, prev_risks, used_prev, i + 1, best_idx, best_score)
         ELSE LET score == CalculateSimilarity(curr.text, prev_risks[i].text)
              IN  IF FracGt(score, best_score) /\ FracGt(score, Threshold)
                  THEN BestScan(curr, prev_risks, used_prev, i + 1, i, score)
                  ELSE BestScan(curr, prev_risks, used_prev, i + 1, best_idx, best_score)

RECURSIVE BestScanLastWins(_, _, _, _, _, _)
BestScanLastWins(curr, prev_risks, used_prev, i, best_idx, best_score) ==
    IF i > Len(prev_risks) THEN best_idx
    ELSE IF i \in used_prev
         THEN BestScanLastWins(curr, prev_risks, used_prev, i + 1, best_idx, best_score)
         ELSE LET score == CalculateSimilarity(curr.text, prev_risks[i].text)
              IN  IF ~FracGt(best_score, score) /\ FracGt(score, Threshold)
                  THEN BestScanLastWins(curr, prev_risks, used_prev, i + 1, i, score)
                  ELSE BestScanLastWins(curr, prev_risks, used_prev, i + 1, best_idx, best_score)

RECURSIVE BestScanInclusive(_, _, _, _, _, _)
BestScanInclusive(curr, prev_risks, used_prev, i, best_idx, best_score) ==
    IF i > Len(prev_risks) THEN best_idx
    ELSE IF i \in used_prev
         THEN BestScanInclusive(curr, prev_risks, used_prev, i + 1, best_idx, best_score)
         ELSE LET score == CalculateSimilarity(curr.text, prev_risks[i].text)
              IN  IF FracGt(score, best_score) /\ ~FracGt(Threshold, score)
                  THEN BestScanInclusive(curr, prev_risks, used_prev, i + 1, i, score)
                  ELSE BestScanInclusive(curr, prev_risks, used_prev, i + 1, best_idx, best_score)

\* best_idx after the inner loop for one current entry (0 when best_match is None)
BestMatchLastWins(curr, prev_risks, used_prev) ==
    BestScanLastWins(curr, prev_risks, used_prev, 1, 0, Frac(0, 1))

BestMatchInclusive(curr, prev_risks, used_prev) ==
    BestScanInclusive(curr, prev_risks, used_prev, 1, 0, Frac(0, 1))

BestMatch(curr, prev_risks, used_prev) ==
    BestScan(curr, prev_risks, used_prev, 1, 0, Frac(0, 1))

\* the outer loop over current_risks, from position k on
RECURSIVE MatchLoop(_, _, _, _, _)
MatchLoop(curr_risks, prev_risks, k, used_prev, acc) ==
    IF k > Len(curr_risks) THEN [matches |-> acc, used_prev |-> used_prev]
    ELSE LET best_idx == BestMatch(curr_risks[k], prev_risks, used_prev)
         IN  IF best_idx # 0
             THEN MatchLoop(curr_risks, prev_risks, k + 1, used_prev \cup {best_idx},
                            Append(acc, [curr |-> k, prev |-> best_idx]))
             ELSE MatchLoop(curr_risks, prev_risks, k + 1, used_prev,
                            Append(acc, [curr |-> k, prev |-> 0]))

\* the same loop without used_prev.add(best_idx)
RECURSIVE MatchLoopNoMark(_, _, _, _, _)
MatchLoopNoMark(curr_risks, prev_risks, k, used_prev, acc) ==
    IF k > Len(curr_risks) THEN [matches |-> acc, used_prev |-> used_prev]
    ELSE LET best_idx == BestMatch(curr_risks[k], prev_risks, used_prev)
         IN  MatchLoopNoMark(curr_risks, prev_risks, k + 1, used_prev,
                             Append(acc, [curr |-> k, prev |-> best_idx]))

\* the closing loop: the previous entries not in used_prev, in list order
RECURSIVE Remaining(_, _, _)
Remaining(prev_risks, used_prev, i) ==
    IF i > Len(prev_risks) THEN <<>>
    ELSE IF i \notin used_prev
         THEN <<[curr |-> 0, prev |-> i]>> \o Remaining(prev_risks, used_prev, i + 1)
         ELSE Remaining(prev_risks, used_prev, i + 1)

\* pairing by list position instead of by best score
MatchRiskFactorsPositional(curr_risks, prev_risks) ==
    LET paired == {k \in DOMAIN curr_risks :
                      /\ k \in DOMAIN prev_risks
                      /\ FracGt(CalculateSimilarity(curr_risks[k].text, prev_risks[k].text),
                                Threshold)}
    IN  [k \in DOMAIN curr_risks |->
            [curr |-> k, prev |-> IF k \in paired THEN k ELSE 0]]
        \o Remaining(prev_risks, paired, 1)

MatchRiskFactorsNoMark(curr_risks, prev_risks) ==
    LET r == MatchLoopNoMark(curr_risks, prev_risks, 1, {}, <<>>)
    IN  r.matches \o Remaining(prev_risks, r.used_prev, 1)

MatchRiskFactors(curr_risks, prev_risks) ==
    LET r == MatchLoop(curr_risks, prev_risks, 1, {}, <<>>)
    IN  r.matches \o Remaining(prev_risks, r.used_prev, 1)

(***************************************************************************)
(* RiskAnalyzer._analyze_content_changes.  Every entry is a non-empty dict *)
(* (it has 'text'), so `if curr and prev` tests the pair for None.         *)
(***************************************************************************)
\* the same classification with the 'added' and 'removed' labels exchanged
ChangeOfSwapped(curr_risks, prev_risks, m) ==
    IF m.curr # 0 /\ m.prev # 0
    THEN LET curr == curr_risks[m.curr]
             prev == prev_risks[m.prev]
         IN  [type |-> "modified",
              similarity |-> CalculateSimilarity(curr.text, prev.text),
              current_summary |-> curr.title,
              previous_summary |-> prev.title,
              word_count_change |-> curr.word_count - prev.word_count]
    ELSE IF m.curr # 0
         THEN [type |-> "removed",
               summary |-> curr_risks[m.curr].title,
               word_count |-> curr_risks[m.curr].word_count]
         ELSE [type |-> "added",
               summary |-> prev_risks[m.prev].title,
               word_count |-> prev_risks[m.prev].word_count]

ChangeOf(curr_risks, prev_risks, m) ==
    IF m.curr # 0 /\ m.prev # 0
    THEN LET curr == curr_risks[m.curr]
             prev == prev_risks[m.prev]
         IN  [type |-> "modified",
              similarity |-> CalculateSimilarity(curr.text, prev.text),
              current_summary |-> curr.title,
              previous_summary |-> prev.title,
              word_count_change |-> curr.word_count - prev.word_count]
    ELSE IF m.curr # 0
         THEN [type |-> "added",
               summary |-> curr_risks[m.curr].title,
               word_count |-> curr_risks[m.curr].word_count]
         ELSE [type |-> "removed",
               summary |-> prev_risks[m.prev].title,
               word_count |-> prev_risks[m.prev].word_count]

CountType(changes, ty) == Cardinality({i \in DOMAIN changes : changes[i].type = ty})

AnalyzeContentChangesCurrentOnly(curr_risks, prev_risks) ==
    LET matched_risks == SelectSeq(MatchRiskFactors(curr_risks, prev_risks),
                                   LAMBDA m : m.curr # 0)
        changes == [i \in DOMAIN matched_risks |->
                        ChangeOf(curr_risks, prev_risks, matched_risks[i])]
    IN  [changes |-> changes,
         summary |-> [total_changes |-> Len(changes),
                      added    |-> CountType(changes, "added"),
                      removed  |-> CountType(changes, "removed"),
                      modified |-> CountType(changes, "modified")]]

AnalyzeContentChanges(curr_risks, prev_risks) ==
    LET matched_risks == MatchRiskFactors(curr_risks, prev_risks)
        changes == [i \in DOMAIN matched_risks |->
                        ChangeOf(curr_risks, prev_risks, matched_risks[i])]
    IN  [changes |-> changes,
         summary |-> [total_changes |-> Len(changes),
                      added    |-> CountType(changes, "added"),
                      removed  |-> CountType(changes, "removed"),
                      modified |-> CountType(changes, "modified")]]

(***************************************************************************)
(* Inputs of the comparator: risk-factor entries over a pool of texts      *)
(* whose pairwise similarities cover 0 (the empty text), exactly 7/10,     *)
(* 7/8, 8/10 and 1 (equal word sets under a different case and with a      *)
(* repeated word).                                                         *)
(***************************************************************************)
Text0 == <<>>
Text7 == <<"supply", "chain", "cyber", "attack", "currency", "rates", "tax">>
Text8 == Text7 \o <<"law">>
Text8Caps == <<"Supply", "chain", "Cyber", "attack", "currency", "rates", "tax", "law", "SUPPLY">>
Text10 == Text8 \o <<"demand", "pandemic">>

TextPool == {Text0, Text7, Text8, Text8Caps, Text10}

Entry(t) == [text |-> t,
             title |-> IF t = <<>> THEN "" ELSE t[1],
             word_count |-> Len(t)]

EntryPool == {Entry(t) : t \in TextPool}

RiskLists == SeqsUpTo(EntryPool, MaxRisks)

IdleSimilarity == text1 = <<>> /\ text2 = <<>> /\ similarity = NotCalled
IdleExtractor  == text = <<>> /\ raw_section_file = NoFile /\ section = NoResult
                  /\ extract_ret = NoResult
IdleSegmenter  == cleaned_text = <<>> /\ processed = NotCalled
IdleComparator == current_risks = <<>> /\ previous_risks = <<>> /\ matches = NoResult
                  /\ content_changes = NotCalled
IdleCleaner    == raw_text = <<>> /\ recleaned = NoResult
IdleExtCleaner == content = <<>> /\ clean_text = NoResult /\ reclean_text = NoResult
IdleAnalyzer   == llm_reply = "raises" /\ llm_called = FALSE /\ comparison = NotCalled
IdleCli        == pc = "not started" /\ probed = 0 /\ available_years = <<>>
                  /\ selected = <<>> /\ prompts = 0 /\ calls = <<>> /\ report = ""
                  /\ analysis = NoResult
IdleLimiter    == request_count = 0 /\ window_start = 0 /\ last_request_time = 0
                  /\ current_time = 0 /\ limit_sleep = 0
IdleRequest    == max_retries = 0 /\ attempt = 0 /\ requests_made = 0
                  /\ wait_times = <<>> /\ response = [state |-> "not called"]
IdleClient     == IdleLimiter /\ IdleRequest
IdleFetch      == html_files = <<>> /\ downloads = <<>> /\ download = NotCalled
IdleStrategy   == soup = <<>> /\ invoked = <<>> /\ risk_section = -1
IdleRc         == rf_files = <<>> /\ comparison_files = {} /\ rc_args = <<>>
                  /\ rc_result = NotCalled
IdleRest       == IdleAnalyzer /\ IdleCli /\ IdleClient /\ IdleFetch /\ IdleRc /\ IdleStrategy
IdleLater      == IdleCleaner /\ IdleExtCleaner /\ IdleRest

Init ==
    /\ current_risks \in RiskLists
    /\ previous_risks \in RiskLists
    /\ matches = NoResult
    /\ content_changes = NotCalled
    /\ IdleSimilarity /\ IdleExtractor /\ IdleSegmenter /\ IdleLater

\* a call of _match_risk_factors(current_risks, previous_risks)
MatchRiskFactorsCall ==
    /\ matches' = MatchRiskFactors(current_risks, previous_risks)
    /\ UNCHANGED <<current_risks, previous_risks, content_changes>>
    /\ UNCHANGED <<similarityVars, extractorVars, segmenterVars, laterVars>>

\* a call of _analyze_content_changes(current_risks, previous_risks)
AnalyzeContentChangesCall ==
    /\ content_changes' = AnalyzeContentChanges(current_risks, previous_risks)
    /\ UNCHANGED <<current_risks, previous_risks, matches>>
    /\ UNCHANGED <<similarityVars, extractorVars, segmenterVars, laterVars>>

Next == MatchRiskFactorsCall \/ AnalyzeContentChangesCall

Spec == Init /\ [][Next]_vars

(***************************************************************************)
(* _calculate_similarity on its own: both texts drawn from every word      *)
(* sequence of up to MaxWords words, with case variants and repetitions.   *)
(***************************************************************************)
SimWords == {"risk", "RISK", "cyber", "supply"}

InitSimilarity ==
    /\ text1 \in SeqsUpTo(SimWords, MaxWords)
    /\ text2 \in SeqsUpTo(SimWords, MaxWords)
    /\ similarity = NotCalled
    /\ IdleComparator /\ IdleExtractor /\ IdleSegmenter /\ IdleLater

\* a call of _calculate_similarity(text1, text2)
CalculateSimilarityCall ==
    /\ similarity' = CalculateSimilarity(text1, text2)
    /\ UNCHANGED <<text1, text2>>
    /\ UNCHANGED <<comparatorVars, extractorVars, segmenterVars, laterVars>>

NextSimilarity == CalculateSimilarityCall

SpecSimilarity == InitSimilarity /\ [][NextSimilarity]_vars

(***************************************************************************)
(* The end-to-end comparison scenario: NumEntries entries per year, one    *)
(* text shared word for word (at position p of the current list and q of   *)
(* the previous list), every other entry over a vocabulary of its own.     *)
(***************************************************************************)
SharedTexts == {<<"risk">>, Text7, <<"supply", "chain", "supply">>}

CurOther(i)  == <<"cur" \o ToString(i), "new" \o ToString(i)>>
PrevOther(i) == <<"prev" \o ToString(i), "old" \o ToString(i), "gone" \o ToString(i)>>

ScenarioCurrent(shared, p) ==
    [i \in 1..NumEntries |-> IF i = p THEN Entry(shared) ELSE Entry(CurOther(i))]
ScenarioPrevious(shared, q) ==
    [i \in 1..NumEntries |-> IF i = q THEN Entry(shared) ELSE Entry(PrevOther(i))]

InitScenario ==
    /\ \E shared \in SharedTexts, p \in 1..NumEntries, q \in 1..NumEntries :
          /\ current_risks = ScenarioCurrent(shared, p)
          /\ previous_risks = ScenarioPrevious(shared, q)
    /\ matches = NoResult
    /\ content_changes = NotCalled
    /\ IdleSimilarity /\ IdleExtractor /\ IdleSegmenter /\ IdleLater

SpecScenario == InitScenario /\ [][Next]_vars

(***************************************************************************)
(* Properties of the comparator.                                           *)
(***************************************************************************)
Sim(k, j) == CalculateSimilarity(current_risks[k].text, previous_risks[j].text)
Above(k, j) == FracGt(Sim(k, j), Threshold)
AtThreshold(k, j) == FracEq(Sim(k, j), Threshold)

Matched == matches # NoResult
Analyzed == content_changes # NotCalled

PairsOfCurr(k) == {i \in DOMAIN matches : matches[i].curr = k}
PairsOfPrev(j) == {i \in DOMAIN matches : matches[i].prev = j}

\* the previous entries already consumed when the k-th current entry is processed
UsedBefore(k) == {matches[i].prev : i \in 1..(k - 1)} \ {0}
UnusedAt(k) == DOMAIN previous_risks \ UsedBefore(k)

\* C1: _match_risk_factors partitions its inputs: every current entry is in
\* exactly one output pair, every previous entry is in exactly one output
\* pair, and no pair is empty.
C1_Partition ==
    Matched =>
        /\ \A k \in DOMAIN current_risks : Cardinality(PairsOfCurr(k)) = 1
        /\ \A j \in DOMAIN previous_risks : Cardinality(PairsOfPrev(j)) = 1
        /\ \A i \in DOMAIN matches :
              /\ matches[i].curr \in {0} \cup DOMAIN current_risks
              /\ matches[i].prev \in {0} \cup DOMAIN previous_risks
              /\ ~(matches[i].curr = 0 /\ matches[i].prev = 0)

\* C1 witness: two current entries compete for one previous entry above the
\* threshold; one is paired with it, the other comes out alone, and a second
\* previous entry comes out alone.
C1_Witness ==
    /\ Matched
    /\ Len(current_risks) = 2 /\ Len(previous_risks) = 2
    /\ Above(1, 1) /\ Above(2, 1)
    /\ matches = <<[curr |-> 1, prev |-> 1], [curr |-> 2, prev |-> 0],
                   [curr |-> 0, prev |-> 2]>>

\* C2: matching is strict at the threshold: a pair is formed only above 0.70,
\* a current and a previous entry at exactly 0.70 are never paired (alone they
\* come out as one unpaired current and one unpaired previous entry), and a
\* current entry that has an unused candidate above 0.70 is paired.
C2_StrictThreshold ==
    Matched =>
        /\ \A i \in DOMAIN matches :
              (matches[i].curr # 0 /\ matches[i].prev # 0)
                  => /\ Above(matches[i].curr, matches[i].prev)
                     /\ ~AtThreshold(matches[i].curr, matches[i].prev)
        /\ (Len(current_risks) = 1 /\ Len(previous_risks) = 1 /\ AtThreshold(1, 1))
              => matches = <<[curr |-> 1, prev |-> 0], [curr |-> 0, prev |-> 1]>>
        /\ \A k \in DOMAIN current_risks :
              (\E j \in UnusedAt(k) : Above(k, j)) => matches[k].prev # 0

\* C2 witness: one current and one previous entry at exactly 7/10, unpaired.
C2_Witness ==
    /\ Matched
    /\ Len(current_risks) = 1 /\ Len(previous_risks) = 1
    /\ Sim(1, 1) = Frac(ThresholdNum, ThresholdDen)
    /\ matches = <<[curr |-> 1, prev |-> 0], [curr |-> 0, prev |-> 1]>>

\* the candidates of the k-th current entry: unused previous entries above 0.70
Candidates(k) == {j \in UnusedAt(k) : Above(k, j)}
\* the candidates of maximal similarity
BestCandidates(k) ==
    {j \in Candidates(k) : \A j2 \in Candidates(k) : ~FracGt(Sim(k, j2), Sim(k, j))}
MinOf(S) == CHOOSE x \in S : \A y \in S : x <= y

\* C3: greedy selection: in list order each current entry is paired with the
\* unused previous entry of maximal similarity when that maximum exceeds 0.70,
\* the earliest of them in the previous list on a tie, and is left unpaired
\* otherwise.
C3_GreedySelection ==
    Matched =>
        \A k \in DOMAIN current_risks :
            LET cand == Candidates(k) IN
            /\ matches[k].curr = k
            /\ IF cand = {}
               THEN matches[k].prev = 0
               ELSE LET best == matches[k].prev IN
                    /\ best \in cand
                    /\ \A j \in cand : ~FracGt(Sim(k, j), Sim(k, best))
                    /\ \A j \in cand : FracEq(Sim(k, j), Sim(k, best)) => best <= j

\* C3, the higher score later in the list: the first current entry is paired with the second previous
\* entry, which scores higher than the first (also above 0.70); the second
\* current entry then finds the first previous entry, the only one unused.
C3_HigherLaterReached ==
    /\ Matched
    /\ Len(current_risks) = 2 /\ Len(previous_risks) = 2
    /\ Above(1, 1) /\ FracGt(Sim(1, 2), Sim(1, 1))
    /\ FracGt(Sim(2, 2), Sim(2, 1)) /\ Above(2, 1)
    /\ matches = <<[curr |-> 1, prev |-> 2], [curr |-> 2, prev |-> 1]>>

\* C3 witness: two unused candidates share the maximal similarity and the
\* current entry is paired with the earlier one.
C3_Witness ==
    /\ Matched
    /\ \E k \in DOMAIN current_risks :
          /\ Cardinality(BestCandidates(k)) >= 2
          /\ matches[k].prev = MinOf(BestCandidates(k))

\* C4: _calculate_similarity returns a value in [0, 1], and 0 when the union
\* of the two word sets is empty.
C4_SimilarityRange ==
    similarity # NotCalled =>
        /\ similarity.den > 0
        /\ 0 <= similarity.num
        /\ similarity.num <= similarity.den
        /\ (WordSet(text1) \cup WordSet(text2) = {}) => similarity.num = 0

\* C4 witness: a similarity strictly between 0 and 1 has been returned.
C4_Witness ==
    /\ similarity # NotCalled
    /\ 0 < similarity.num
    /\ similarity.num < similarity.den

\* the result of comparing one current with one previous entry of equal text:
\* a single change, 'modified', with similarity 1.0
OneModifiedAtOne ==
    /\ Len(content_changes.changes) = 1
    /\ content_changes.changes[1].type = "modified"
    /\ FracEq(content_changes.changes[1].similarity, Frac(1, 1))
    /\ FracEq(CalculateSimilarity(current_risks[1].text, current_risks[1].text), Frac(1, 1))

SameSingleText ==
    /\ Len(current_risks) = 1 /\ Len(previous_risks) = 1
    /\ current_risks[1].text = previous_risks[1].text

\* C5 as stated: for every text t, a current and a previous entry that both
\* carry t (each the only entry of its set) yield similarity 1.0 and one
\* 'modified' change.
C5_IdenticalTextsModified_Original ==
    (Analyzed /\ SameSingleText) => OneModifiedAtOne

\* C5 amended: for every text t that holds at least one word, a current and a
\* previous entry that both carry t (each the only entry of its set) yield
\* similarity 1.0 and one 'modified' change.
C5_IdenticalTextsModified ==
    (Analyzed /\ SameSingleText /\ WordSet(current_risks[1].text) # {})
        => OneModifiedAtOne

\* C5 witness: the comparison of two single entries with the same non-empty
\* text has been made.
C5_Witness ==
    /\ Analyzed /\ SameSingleText
    /\ current_risks[1].text = Text8Caps
    /\ OneModifiedAtOne

\* the matched pairs behind the change records (changes[i] is built from the
\* i-th pair of _match_risk_factors)
Pairs == MatchRiskFactors(current_risks, previous_risks)

\* C6: a change is 'modified' only if the similarity of its two texts exceeds
\* 0.70; a current entry with no previous entry above 0.70 is reported
\* 'added', a previous entry with no current entry above 0.70 'removed'.
C6_ModifiedOnlyAboveThreshold ==
    Analyzed =>
        LET changes == content_changes.changes
            pair == Pairs
        IN
        /\ \A i \in DOMAIN changes :
              changes[i].type = "modified"
                  => /\ FracGt(changes[i].similarity, Threshold)
                     /\ pair[i].curr # 0 /\ pair[i].prev # 0
                     /\ Above(pair[i].curr, pair[i].prev)
        /\ \A k \in DOMAIN current_risks :
              (\A j \in DOMAIN previous_risks : ~Above(k, j))
                  => \E i \in DOMAIN changes :
                        /\ pair[i] = [curr |-> k, prev |-> 0]
                        /\ changes[i].type = "added"
                        /\ changes[i].summary = current_risks[k].title
        /\ \A j \in DOMAIN previous_risks :
              (\A k \in DOMAIN current_risks : ~Above(k, j))
                  => \E i \in DOMAIN changes :
                        /\ pair[i] = [curr |-> 0, prev |-> j]
                        /\ changes[i].type = "removed"
                        /\ changes[i].summary = previous_risks[j].title

\* C6 witness: an analysis holding a 'modified', an 'added' and a 'removed'
\* change; the removed entry is exactly at the threshold with the first
\* current entry and below it with the second.
C6_Witness ==
    /\ Analyzed
    /\ Len(current_risks) = 2 /\ Len(previous_risks) = 2
    /\ Above(1, 1) /\ AtThreshold(1, 2)
    /\ ~Above(2, 1) /\ ~Above(2, 2)
    /\ content_changes.summary = [total_changes |-> 3, added |-> 1,
                                  removed |-> 1, modified |-> 1]

\* C7: in the scenario (one entry word-for-word identical in both years, all
\* others over disjoint vocabulary) the comparison yields exactly 1
\* 'modified' change with similarity 1.0, NumEntries - 1 'added' and
\* NumEntries - 1 'removed' changes, wherever the identical entry stands.
C7_ScenarioCounts ==
    Analyzed =>
        LET changes == content_changes.changes IN
        /\ content_changes.summary.modified = 1
        /\ content_changes.summary.added = NumEntries - 1
        /\ content_changes.summary.removed = NumEntries - 1
        /\ content_changes.summary.total_changes = 2 * NumEntries - 1
        /\ \A i \in DOMAIN changes :
              changes[i].type = "modified"
                  => FracEq(changes[i].similarity, Frac(1, 1))

\* C7 witness: the scenario has been compared with the identical entry last
\* in the current list and first in the previous list.
C7_Witness ==
    /\ Analyzed
    /\ Len(current_risks) = NumEntries
    /\ current_risks[NumEntries].text = previous_risks[1].text
    /\ content_changes.summary.modified = 1

(***************************************************************************)
(* The section extractor (extractors/text_extractor.py).  A document text  *)
(* is a sequence of symbols, each standing for a literal piece of text     *)
(* ("Item", "1A.", a newline, an ordinary word "w"), consecutive symbols   *)
(* being separated by a blank.  Offsets are counted in symbols from 0, as  *)
(* match.start() counts characters from 0.                                 *)
(***************************************************************************)
Newline == "\n"

\* does the literal piece lit occur in the text of symbol sym
Contains(sym, lit) == sym = lit \/ (sym = "1A." /\ lit = "1A")

\* a pattern  p1[^\n]*p2[^\n]*p3  is the sequence of its literal parts
start_patterns == << <<"Item", "1A", "Risk Factors">>,
                     <<"ITEM", "1A", "RISK FACTORS">>,
                     <<"Item", "1A.">>,
                     <<"ITEM", "1A.">> >>

end_patterns == << <<"Item", "1B">>,
                   <<"ITEM", "1B">>,
                   <<"Item", "2">>,
                   <<"ITEM", "2">> >>

\* parts i.. of pat can be found from position p (1-based) on without
\* crossing a newline
RECURSIVE MatchRest(_, _, _, _)
MatchRest(pat, i, t, p) ==
    IF i > Len(pat) THEN TRUE
    ELSE IF p > Len(t) THEN FALSE
    ELSE IF t[p] = Newline THEN FALSE
    ELSE IF Contains(t[p], pat[i]) THEN MatchRest(pat, i + 1, t, p + 1)
    ELSE MatchRest(pat, i, t, p + 1)

MatchesAt(pat, t, p) == Contains(t[p], pat[1]) /\ MatchRest(pat, 2, t, p + 1)

\* re.search(pattern, t): match.start() of the leftmost match, -1 for no match
Search(pat, t) ==
    LET hits == {p \in DOMAIN t : MatchesAt(pat, t, p)}
    IN  IF hits = {} THEN -1
        ELSE (CHOOSE p \in hits : \A q \in hits : p <= q) - 1

\* the loop over start_patterns, from the i-th pattern on
RECURSIVE StartLoop(_, _, _)
StartLoop(t, i, start_pos) ==
    IF i > Len(start_patterns) THEN start_pos
    ELSE LET pos == Search(start_patterns[i], t)
         IN  IF pos # -1 /\ (start_pos = -1 \/ pos < start_pos)
             THEN StartLoop(t, i + 1, pos)
             ELSE StartLoop(t, i + 1, start_pos)

StartPos(t) == StartLoop(t, 1, -1)

\* the loop over end_patterns, from the i-th pattern on
RECURSIVE EndLoop(_, _, _)
EndLoop(text_after_start, i, end_pos) ==
    IF i > Len(end_patterns) THEN end_pos
    ELSE LET pos == Search(end_patterns[i], text_after_start)
         IN  IF pos # -1 /\ pos < end_pos
             THEN EndLoop(text_after_start, i + 1, pos)
             ELSE EndLoop(text_after_start, i + 1, end_pos)

\* str.strip(): leading and trailing whitespace removed
RECURSIVE Strip(_)
Strip(t) ==
    IF t = <<>> THEN t
    ELSE IF Head(t) = Newline THEN Strip(Tail(t))
    ELSE IF t[Len(t)] = Newline THEN Strip(SubSeq(t, 1, Len(t) - 1))
    ELSE t

\* t[a:]  for an offset a >= 0
From(t, a) == SubSeq(t, a + 1, Len(t))

\* the extractor without the test for a missing start marker: text[-1:]
ExtractRiskSectionNoStartTest(t) ==
    LET start_pos == StartPos(t)
        text_after_start == IF start_pos = -1
                            THEN (IF Len(t) = 0 THEN <<>> ELSE SubSeq(t, Len(t), Len(t)))
                            ELSE From(t, start_pos)
        end_pos == EndLoop(text_after_start, 1, Len(text_after_start))
        sec == Strip(SubSeq(text_after_start, 1, end_pos))
    IN  IF sec # <<>> THEN sec ELSE None

\* TextExtractor._extract_risk_section
ExtractRiskSection(t) ==
    LET start_pos == StartPos(t) IN
    IF start_pos = -1 THEN None
    ELSE LET text_after_start == From(t, start_pos)
             end_pos == EndLoop(text_after_start, 1, Len(text_after_start))
             sec == Strip(SubSeq(text_after_start, 1, end_pos))
         IN  IF sec # <<>> THEN sec ELSE None

RawSectionPath == "raw_section.txt"

\* the symbols the document texts of the model are made of: every literal
\* piece of the marker patterns but "RISK FACTORS" (the upper-case heading is
\* reached through ITEM ... 1A.), the newline and an ordinary word
DocSymbols == {"Item", "ITEM", "1A", "1A.", "Risk Factors", "1B", "2", Newline, "w"}

InitExtract ==
    /\ text \in SeqsUpTo(DocSymbols, MaxTextLen)
    /\ raw_section_file = NoFile
    /\ section = NoResult
    /\ extract_ret = NoResult
    /\ IdleComparator /\ IdleSimilarity /\ IdleSegmenter /\ IdleLater

\* a call of extract_risk_section(html_file) on the filing whose text is `text`
ExtractRiskSectionCall ==
    /\ IF raw_section_file # NoFile
       THEN /\ extract_ret' = RawSectionPath
            /\ UNCHANGED <<raw_section_file, section>>
       ELSE /\ section' = ExtractRiskSection(text)
            /\ IF section' = None
               THEN extract_ret' = None /\ UNCHANGED raw_section_file
               ELSE extract_ret' = RawSectionPath /\ raw_section_file' = section'
    /\ UNCHANGED text
    /\ UNCHANGED <<comparatorVars, similarityVars, segmenterVars, laterVars>>

NextExtract == ExtractRiskSectionCall

SpecExtract == InitExtract /\ [][NextExtract]_vars

(***************************************************************************)
(* Properties of the section extractor.                                    *)
(***************************************************************************)
ExtractCalled == extract_ret # NoResult

\* the positions (1-based) at which a match of pat that begins at p can end
RECURSIVE EndsFrom(_, _, _, _)
EndsFrom(pat, i, t, p) ==
    IF p > Len(t) THEN {}
    ELSE IF t[p] = Newline THEN {}
    ELSE (IF Contains(t[p], pat[i])
          THEN (IF i = Len(pat) THEN {p} ELSE EndsFrom(pat, i + 1, t, p + 1))
          ELSE {})
         \cup EndsFrom(pat, i, t, p + 1)

AllStartMatches(t) ==
    {p \in DOMAIN t : \E i \in DOMAIN start_patterns : MatchesAt(start_patterns[i], t, p)}

EarliestStart(t) == CHOOSE p \in AllStartMatches(t) : \A q \in AllStartMatches(t) : p <= q

\* where the start marker found at the earliest start position can end
StartMarkerEnds(t) ==
    UNION {EndsFrom(start_patterns[i], 2, t, EarliestStart(t) + 1) :
              i \in {n \in DOMAIN start_patterns :
                        MatchesAt(start_patterns[n], t, EarliestStart(t))}}

\* the positions after position e at which an end marker begins
EndMatchesAfter(t, e) ==
    {p \in (e + 1)..Len(t) : \E i \in DOMAIN end_patterns : MatchesAt(end_patterns[i], t, p)}

NearestEndAfter(t, e) ==
    CHOOSE p \in EndMatchesAfter(t, e) : \A q \in EndMatchesAfter(t, e) : p <= q

\* the text has a start marker and, after it, an end marker
HasStartAndLaterEnd(t) ==
    /\ AllStartMatches(t) # {}
    /\ \E e \in StartMarkerEnds(t) : EndMatchesAfter(t, e) # {}

\* the text strictly between a start marker ending at e and the nearest end
\* marker after it, surrounding whitespace aside
StrictlyBetween(t, e) == Strip(SubSeq(t, e + 1, NearestEndAfter(t, e) - 1))

\* C8: when the text holds a start marker and a later end marker,
\* _extract_risk_section returns the text strictly between the earliest
\* start-marker match and the nearest end-marker match after it: neither
\* marker is part of the result, and a result is produced (None only when
\* nothing but whitespace stands between the markers).
C8_StrictlyBetweenMarkers ==
    (ExtractCalled /\ HasStartAndLaterEnd(text)) =>
        \E e \in StartMarkerEnds(text) :
            /\ EndMatchesAfter(text, e) # {}
            /\ IF StrictlyBetween(text, e) = <<>>
               THEN section = None
               ELSE section # None /\ section = StrictlyBetween(text, e)

\* the case of C8 on one line: "Item 1A. w Item 1B" yields no section at all
C8_OneLineReached ==
    /\ ExtractCalled
    /\ text = <<"Item", "1A.", "w", "Item", "1B">>
    /\ section = None /\ extract_ret = None /\ raw_section_file = NoFile

\* the case of C8 with the heading on its own line: the result begins with
\* the start marker itself
C8_MarkerKeptReached ==
    /\ ExtractCalled
    /\ text = <<"Item", "1A.", Newline, "Item", "1B">>
    /\ section = <<"Item", "1A.">>

\* C9: when no start-marker pattern matches anywhere in the text,
\* _extract_risk_section returns None and extract_risk_section returns None
\* without writing raw_section.txt.
C9_NoStartNotFound ==
    (ExtractCalled /\ AllStartMatches(text) = {}) =>
        /\ section = None
        /\ extract_ret = None
        /\ raw_section_file = NoFile

\* C9 witness: extraction has run on a text with an end marker and content
\* but no start marker ("Item" and "1A." on different lines).
C9_Witness ==
    /\ ExtractCalled
    /\ text = <<"Item", Newline, "1A.", "Item", "1B">>
    /\ AllStartMatches(text) = {}
    /\ section = None /\ raw_section_file = NoFile

(***************************************************************************)
(* The risk segmenter (processors/text_extractor.py, _process_content).    *)
(* A cleaned text is the sequence of its '\n\n'-separated paragraphs, a    *)
(* paragraph the sequence of its words (single blanks between them).       *)
(***************************************************************************)
MinWords == 50

risk_starts == << <<"The", "Company">>, <<"Global">>, <<"Future">>, <<"If", "the">>,
                  <<"Changes">>, <<"The", "business">>, <<"The", "Company's">>,
                  <<"There", "can">>, <<"The", "Company", "has">> >>

\* word a is a prefix of word b, character by character
WordPrefix(a, b) ==
    \/ a = b
    \/ a = "Company" /\ b = "Company's"
    \/ a = "Global" /\ b = "Globally"
    \/ a = "the" /\ b = "they"

\* paragraph.startswith(start)
StartsWith(paragraph, start) ==
    /\ Len(paragraph) >= Len(start)
    /\ \A i \in 1..(Len(start) - 1) : paragraph[i] = start[i]
    /\ WordPrefix(start[Len(start)], paragraph[Len(start)])

IsNewRisk(paragraph) == \E i \in DOMAIN risk_starts : StartsWith(paragraph, risk_starts[i])

\* the loop over the paragraphs: risk_factors collects the closed groups of
\* paragraphs, current_text is the open one
RECURSIVE GroupLoop(_, _, _, _)
GroupLoop(paras, i, risk_factors, current_text) ==
    IF i > Len(paras)
    THEN IF current_text # <<>> THEN Append(risk_factors, current_text) ELSE risk_factors
    ELSE IF IsNewRisk(paras[i]) /\ current_text # <<>>
         THEN GroupLoop(paras, i + 1, Append(risk_factors, current_text), <<paras[i]>>)
         ELSE GroupLoop(paras, i + 1, risk_factors, Append(current_text, paras[i]))

\* rf.split() for rf = ' '.join(group)
RECURSIVE JoinWords(_)
JoinWords(group) == IF group = <<>> THEN <<>> ELSE Head(group) \o JoinWords(Tail(group))

CharLen(w) ==
    CASE w = "The" -> 3 [] w = "Company" -> 7 [] w = "Company's" -> 9
      [] w = "Globally" -> 8 [] w = "If" -> 2 [] w = "they" -> 4
      [] w = "However" -> 7 [] w = "risks." -> 6
      [] w = "" -> 0 [] w = "1A." -> 3 [] w = "1B" -> 2 [] w = "<b>" -> 3
      [] w = "Risk Factors" -> 12 [] w = "Table of Contents" -> 17
      [] w = "Click here to view" -> 18 [] w = "Form 10-K" -> 9
      [] w = "counterparty-related" -> 20
      [] OTHER -> 4

\* the characters of the words ws, summed word by word of the vocabulary
RECURSIVE SumOver(_, _)
SumOver(S, ws) ==
    IF S = {} THEN 0
    ELSE LET w == CHOOSE x \in S : TRUE
         IN  CharLen(w) * Cardinality({i \in DOMAIN ws : ws[i] = w}) + SumOver(S \ {w}, ws)

SumChars(ws) == SumOver(Range(ws), ws)

\* len(rf) for rf = ' '.join(group): the characters of the words, one blank
\* between the words of a paragraph and one between paragraphs
RECURSIVE GroupChars(_)
GroupChars(group) ==
    IF group = <<>> THEN 0
    ELSE SumChars(Head(group))
         + (IF Len(Head(group)) > 0 THEN Len(Head(group)) - 1 ELSE 0)
         + (IF Len(group) > 1 THEN 1 ELSE 0)
         + GroupChars(Tail(group))

\* rf.split('.')[0]: the words before the first full stop
FirstSentence(ws) ==
    LET stops == {i \in DOMAIN ws : ws[i] = "risks."}
    IN  IF stops = {} THEN ws
        ELSE SubSeq(ws, 1, (CHOOSE i \in stops : \A j \in stops : i <= j) - 1) \o <<"risks">>

EntryOf(group) ==
    [text |-> JoinWords(group),
     word_count |-> Len(JoinWords(group)),
     char_count |-> GroupChars(group),
     summary |-> FirstSentence(JoinWords(group))]

RECURSIVE SumWords(_)
SumWords(groups) ==
    IF groups = <<>> THEN 0 ELSE Len(JoinWords(Head(groups))) + SumWords(Tail(groups))

RECURSIVE SumGroupChars(_)
SumGroupChars(groups) ==
    IF groups = <<>> THEN 0 ELSE GroupChars(Head(groups)) + SumGroupChars(Tail(groups))

\* the minimum length check of the list comprehension
LongEnoughInclusive(group) == Len(JoinWords(group)) >= MinWords

LongEnough(group) == Len(JoinWords(group)) > MinWords

RECURSIVE KeptReversed(_)
KeptReversed(groups) ==
    IF groups = <<>> THEN <<>>
    ELSE IF LongEnough(Head(groups))
         THEN KeptReversed(Tail(groups)) \o <<EntryOf(Head(groups))>>
         ELSE KeptReversed(Tail(groups))

\* [entry for rf in risk_factors if len(rf.split()) > 50]
RECURSIVE Kept(_)
Kept(groups) ==
    IF groups = <<>> THEN <<>>
    ELSE IF LongEnough(Head(groups))
         THEN <<EntryOf(Head(groups))>> \o Kept(Tail(groups))
         ELSE Kept(Tail(groups))

\* the groups of paragraphs _process_content forms before filtering
Groups(paras) == GroupLoop(paras, 1, <<>>, <<>>)

\* TextExtractor._process_content (the extraction_timestamp aside)
ProcessContent(paras) ==
    LET risk_factors == Groups(paras)
    IN  [section_title |-> "Item 1A. Risk Factors",
         risk_factors |-> Kept(risk_factors),
         metadata |-> [total_risks |-> Len(risk_factors),
                       total_words |-> SumWords(risk_factors),
                       total_chars |-> SumGroupChars(risk_factors)]]

\* the paragraphs the cleaned texts of the model are made of
Filler(n) == [i \in 1..n |-> "risk"]
ParaLead(n)  == <<"The", "Company">> \o Filler(n - 3) \o <<"risks.">>
ParaPlain(n) == <<"However">> \o Filler(n - 1)
ParaIfThey(n) == <<"If", "they">> \o Filler(n - 2)

ParaPool == {<<>>, ParaLead(MinWords + 1), ParaLead(MinWords), ParaLead(20),
             ParaPlain(MinWords + 1), ParaPlain(30), ParaIfThey(30)}

InitSegment ==
    /\ cleaned_text \in SeqsUpTo(ParaPool, MaxParas) \ {<<>>}
    /\ processed = NotCalled
    /\ IdleComparator /\ IdleSimilarity /\ IdleExtractor /\ IdleLater

\* a call of _process_content(cleaned_text)
ProcessContentCall ==
    /\ processed' = ProcessContent(cleaned_text)
    /\ UNCHANGED cleaned_text
    /\ UNCHANGED <<comparatorVars, similarityVars, extractorVars, laterVars>>

NextSegment == ProcessContentCall

SpecSegment == InitSegment /\ [][NextSegment]_vars

(***************************************************************************)
(* Properties of the segmenter.                                            *)
(***************************************************************************)
Processed == processed # NotCalled

LongGroups(paras) == {i \in DOMAIN Groups(paras) : Len(JoinWords(Groups(paras)[i])) > MinWords}

\* C10: every entry of 'risk_factors' returned by _process_content has more
\* than 50 words (its word_count being the number of words of its text), and
\* the entries are exactly the candidates with more than 50 words: shorter
\* candidates are discarded.
C10_MinimumWordCount ==
    Processed =>
        /\ \A i \in DOMAIN processed.risk_factors :
              /\ processed.risk_factors[i].word_count > MinWords
              /\ processed.risk_factors[i].word_count = Len(processed.risk_factors[i].text)
        /\ Len(processed.risk_factors) = Cardinality(LongGroups(cleaned_text))

\* C10 witness: a candidate of exactly 50 words has been discarded and one of
\* 51 words kept.
C10_Witness ==
    /\ Processed
    /\ cleaned_text = <<ParaLead(MinWords), ParaLead(MinWords + 1)>>
    /\ Len(processed.risk_factors) = 1
    /\ processed.risk_factors[1].word_count = MinWords + 1

(***************************************************************************)
(* The cleaner of the processors (processors/text_extractor.py,            *)
(* _clean_text).  A text is the sequence of its '\n\n'-separated blocks, a *)
(* block the sequence of the chunks between its single blanks; the empty   *)
(* chunk "" stands between two adjacent blanks.  The phrases the cleaner   *)
(* looks for ("Risk Factors", "Table of Contents", "Click here to view",   *)
(* "Form 10-K") and a tag ("<b>") are chunks of their own.                 *)
(***************************************************************************)
MaxParaChars == 1000
MinSentenceWords == 5
MinParaWords == 10

IsNonBlank(c) == c # ""

\* text[content_start:] for content_start = raw_text.find("Risk Factors")
SkipHeader(t) ==
    LET blocks == {b \in DOMAIN t : \E i \in DOMAIN t[b] : t[b][i] = "Risk Factors"}
    IN  IF blocks = {} THEN t
        ELSE LET b == MinOf(blocks)
                 i == MinOf({k \in DOMAIN t[b] : t[b][k] = "Risk Factors"})
             IN  <<SubSeq(t[b], i, Len(t[b]))>> \o SubSeq(t, b + 1, Len(t))

\* '\n' replaced by ' ': the two newlines between two blocks become two blanks
RECURSIVE Flatten(_)
Flatten(t) ==
    IF t = <<>> THEN <<>>
    ELSE IF Len(t) = 1 THEN t[1]
    ELSE t[1] \o <<"">> \o Flatten(Tail(t))

\* re.sub(r'<[^>]+>', ' ', cleaned): a tag becomes a run of blanks
ReplaceTags(cs) == [i \in DOMAIN cs |-> IF cs[i] = "<b>" THEN "" ELSE cs[i]]

\* re.sub(r'\s+', ' ', cleaned): one blank between chunks, one kept at either
\* end when the text began or ended with blanks
Collapse(cs) ==
    LET words == SelectSeq(cs, IsNonBlank)
    IN  IF words = <<>>
        THEN (IF Len(cs) > 1 THEN <<"", "">> ELSE cs)
        ELSE (IF cs[1] = "" THEN <<"">> ELSE <<>>)
             \o words
             \o (IF cs[Len(cs)] = "" THEN <<"">> ELSE <<>>)

\* re.sub(r'Table of Contents', '', cleaned): the blanks around it stay
RemoveTableOfContents(cs) ==
    [i \in DOMAIN cs |-> IF cs[i] = "Table of Contents" THEN "" ELSE cs[i]]

\* the chunks that end with a full stop
EndsWithStop(c) == c \in {"risks.", "1A."}

\* re.sub(r'Click here to view.*?\.', '', cleaned)
RECURSIVE RemoveClickHere(_)
RemoveClickHere(cs) ==
    LET starts == {i \in DOMAIN cs : cs[i] = "Click here to view"}
    IN  IF starts = {} THEN cs
        ELSE LET i == MinOf(starts)
                 stops == {j \in (i + 1)..Len(cs) : EndsWithStop(cs[j])}
             IN  IF stops = {} THEN cs
                 ELSE SubSeq(cs, 1, i - 1) \o <<"">>
                      \o RemoveClickHere(SubSeq(cs, MinOf(stops) + 1, Len(cs)))

\* re.sub(r'Risk Factors\s+', '', cleaned, count=1)
RemoveHeader(cs) ==
    LET found == {i \in DOMAIN cs : cs[i] = "Risk Factors" /\ i < Len(cs)}
    IN  IF found = {} THEN cs
        ELSE LET i == MinOf(found)
                 rest == {k \in (i + 1)..Len(cs) : cs[k] # ""}
             IN  IF rest = {} THEN SubSeq(cs, 1, i - 1) \o <<"">>
                 ELSE SubSeq(cs, 1, i - 1) \o SubSeq(cs, MinOf(rest), Len(cs))

MaxOf(S) == CHOOSE x \in S : \A y \in S : x >= y

\* the k-th smallest element of S
Kth(S, k) == CHOOSE i \in S : Cardinality({j \in S : j <= i}) = k

\* sentence.strip()
StripBlanks(cs) ==
    LET words == {i \in DOMAIN cs : cs[i] # ""}
    IN  IF words = {} THEN <<>> ELSE SubSeq(cs, MinOf(words), MaxOf(words))

IsNonEmpty(cs) == cs # <<>>

\* re.split(r'(?<=[.!?])\s+', cleaned), each sentence stripped and the empty
\* ones skipped: a sentence ends at a chunk with a full stop that a blank follows
SplitSentences(cs) ==
    LET stops == {i \in 1..(Len(cs) - 1) : EndsWithStop(cs[i])}
        n == Cardinality(stops)
        first(k) == IF k = 1 THEN 1 ELSE Kth(stops, k - 1) + 1
        last(k) == IF k = n + 1 THEN Len(cs) ELSE Kth(stops, k)
    IN  SelectSeq([k \in 1..(n + 1) |-> StripBlanks(SubSeq(cs, first(k), last(k)))],
                  IsNonEmpty)

\* len(s.split()): the phrases that are one chunk count their words
WordCount(cs) ==
    Cardinality({i \in DOMAIN cs : cs[i] # ""})
    + Cardinality({i \in DOMAIN cs : cs[i] \in {"Risk Factors", "Form 10-K"}})
    + 2 * Cardinality({i \in DOMAIN cs : cs[i] = "Table of Contents"})
    + 3 * Cardinality({i \in DOMAIN cs : cs[i] = "Click here to view"})

\* len(' '.join(current_para))
JoinedChars(current_para) ==
    LET joined == JoinWords(current_para)
    IN  IF joined = <<>> THEN 0 ELSE SumChars(joined) + Len(joined) - 1

lead_ins == << <<"The", "Company">>, <<"The", "business">>, <<"If">>, <<"Changes">>,
               <<"Failure">>, <<"Future">>, <<"Global">> >>

\* re.match(r'^(The Company|The business|If|Changes|Failure|Future|Global)', sentence)
IsLeadIn(sentence) == \E i \in DOMAIN lead_ins : StartsWith(sentence, lead_ins[i])

\* the test of line 262 alone, without the word count of line 261
StartsParagraphAnyLength(sentence, current_para) ==
    /\ current_para # <<>>
    /\ IsLeadIn(sentence)

\* the test that closes the open paragraph before a sentence
StartsParagraph(sentence, current_para) ==
    /\ WordCount(sentence) > MinSentenceWords
    /\ current_para # <<>>
    /\ IsLeadIn(sentence)

\* the loop over the sentences: paragraphs collects the closed paragraphs,
\* current_para is the list of the sentences of the open one
RECURSIVE ParaLoop(_, _, _, _)
ParaLoop(sentences, i, paragraphs, current_para) ==
    IF i > Len(sentences)
    THEN IF current_para # <<>> THEN Append(paragraphs, JoinWords(current_para))
         ELSE paragraphs
    ELSE LET sentence == sentences[i]
             split == StartsParagraph(sentence, current_para)
             closed == IF split THEN Append(paragraphs, JoinWords(current_para))
                       ELSE paragraphs
             open == (IF split THEN <<>> ELSE current_para) \o <<sentence>>
         IN  IF JoinedChars(open) > MaxParaChars
             THEN ParaLoop(sentences, i + 1, Append(closed, JoinWords(open)), <<>>)
             ELSE ParaLoop(sentences, i + 1, closed, open)

\* any(marker in p for marker in ["Item", "ITEM", "Table of Contents", "Form 10-K"])
HasMarker(p) ==
    \E i \in DOMAIN p : p[i] \in {"Item", "ITEM", "Table of Contents", "Form 10-K"}

KeepsParagraph(p) == WordCount(p) > MinParaWords /\ ~HasMarker(p)

\* the chunks of the text after the substitutions of lines 238-248
Cleaned(t) ==
    RemoveHeader(RemoveClickHere(RemoveTableOfContents(
        Collapse(ReplaceTags(Flatten(SkipHeader(t)))))))

\* the paragraphs before the filter
Paragraphs(t) == ParaLoop(SplitSentences(Cleaned(t)), 1, <<>>, <<>>)

\* TextExtractor._clean_text of the processors on a string: the
\* '\n\n'-separated paragraphs of the result, or None
CleanText(t) ==
    LET filtered_paragraphs == SelectSeq(Paragraphs(t), KeepsParagraph)
    IN  IF filtered_paragraphs = <<>> THEN None ELSE filtered_paragraphs

(***************************************************************************)
(* The end-to-end scenario of the cleaner and the segmenter: the marker    *)
(* "Item 1A. Risk Factors", three paragraphs that start with "The Company" *)
(* and have more than 50 words, then "Item 1B".                            *)
(***************************************************************************)
LongFiller(n) == [i \in 1..n |-> "counterparty-related"]

\* one sentence of n words
ParaOneSentence(n) == ParaLead(n)
\* two sentences of n words together, the second no lead-in
ParaTwoSentences(n) == ParaLead(20) \o <<"However">> \o Filler(n - 22) \o <<"risks.">>
\* two sentences, the second a lead-in of more than five words
ParaSecondLeadIn(n) == ParaLead(n - 10) \o <<"If", "they">> \o Filler(7) \o <<"risks.">>
\* one sentence of n words and more than 1000 characters
ParaLongWords(n) == <<"The", "Company">> \o LongFiller(n - 3) \o <<"risks.">>

ScenarioParas == {ParaOneSentence(MinWords + 1), ParaOneSentence(MinWords + 2),
                  ParaTwoSentences(MinWords + 1), ParaSecondLeadIn(MinWords + 11),
                  ParaLongWords(MinWords + 1)}

ScenarioDoc(p1, p2, p3) ==
    << <<"Item", "1A.", "Risk Factors">>, p1, p2, p3, <<"Item", "1B">> >>

ScenarioDocs == {ScenarioDoc(p1, p2, p3) : p1 \in ScenarioParas, p2 \in ScenarioParas,
                                             p3 \in ScenarioParas}

IdleOtherCleaning ==
    IdleComparator /\ IdleSimilarity /\ IdleExtractor /\ IdleExtCleaner /\ IdleRest

InitCleanSegment ==
    /\ raw_text \in ScenarioDocs
    /\ cleaned_text = NoResult
    /\ processed = NotCalled
    /\ recleaned = NoResult
    /\ IdleOtherCleaning

\* cleaned_text = TextExtractor._clean_text(raw_section), stage 2 of extract_risk_factors
CleanTextCall ==
    /\ cleaned_text' = CleanText(raw_text)
    /\ UNCHANGED <<raw_text, recleaned, processed>>
    /\ UNCHANGED <<comparatorVars, similarityVars, extractorVars, extCleanerVars, restVars>>

\* stage 3 of extract_risk_factors: _process_content(cleaned_text), reached
\* when stage 2 returned a text
ProcessCleanedCall ==
    /\ cleaned_text # NoResult /\ cleaned_text # None
    /\ processed' = ProcessContent(cleaned_text)
    /\ UNCHANGED <<raw_text, recleaned, cleaned_text>>
    /\ UNCHANGED <<comparatorVars, similarityVars, extractorVars, extCleanerVars, restVars>>

NextCleanSegment == CleanTextCall \/ ProcessCleanedCall

SpecCleanSegment == InitCleanSegment /\ [][NextCleanSegment]_vars

\* the text of the i-th entry of the result is paragraph p
EntryIs(i, p) == processed.risk_factors[i].text = p

\* C11: for the scenario document, _clean_text followed by _process_content
\* yields exactly 3 risk-factor entries, one per paragraph, in document order.
C11_ThreeEntriesInOrder ==
    Processed =>
        /\ Len(processed.risk_factors) = 3
        /\ \A i \in 1..3 : EntryIs(i, raw_text[i + 1])

\* the case of C11 with three one-sentence paragraphs of 51 words: the third
\* paragraph is joined with "Item 1B" and dropped for the marker "Item"
C11_LastParagraphLostReached ==
    /\ Processed
    /\ raw_text = ScenarioDoc(ParaOneSentence(51), ParaOneSentence(51), ParaOneSentence(51))
    /\ Len(cleaned_text) = 2
    /\ Len(processed.risk_factors) = 2
    /\ EntryIs(1, raw_text[2]) /\ EntryIs(2, raw_text[3])

\* the case of C11 where every paragraph exceeds 1000 characters: each is
\* closed by the length test and all three are kept
C11_LongParagraphsReached ==
    /\ Processed
    /\ raw_text = ScenarioDoc(ParaLongWords(51), ParaLongWords(51), ParaLongWords(51))
    /\ Len(processed.risk_factors) = 3

(***************************************************************************)
(* The cleaner of the CLI pipeline (extractors/text_extractor.py,          *)
(* _clean_text).  A text is the sequence of its tokens: a word, a number,  *)
(* the phrase "Table of Contents", a blank or a newline.                   *)
(***************************************************************************)
IsSpace(c) == c \in {" ", Newline}
IsDigits(c) == c = "7"

\* the last index of the run of whitespace tokens that starts at i, i - 1 if none
SpaceRunEnd(t, i) ==
    MaxOf({i - 1} \cup {k \in i..Len(t) : \A j \in i..k : IsSpace(t[j])})

\* the last index of the run of digit tokens that starts at i, i - 1 if none
DigitRunEnd(t, i) ==
    MaxOf({i - 1} \cup {k \in i..Len(t) : \A j \in i..k : IsDigits(t[j])})

\* re.sub(r'\s+', ' ', text)
RECURSIVE CollapseSpace(_)
CollapseSpace(t) ==
    IF t = <<>> THEN <<>>
    ELSE IF IsSpace(t[1])
         THEN <<" ">> \o CollapseSpace(SubSeq(t, SpaceRunEnd(t, 1) + 1, Len(t)))
         ELSE <<t[1]>> \o CollapseSpace(Tail(t))

\* where a match of r'\n\s*\d+\s*\n' that starts at i ends, 0 if there is none
PageNumberEnd(t, i) ==
    IF t[i] # Newline THEN 0
    ELSE LET d == SpaceRunEnd(t, i + 1) + 1
             e == DigitRunEnd(t, d)
             closing == {m \in (e + 1)..SpaceRunEnd(t, e + 1) : t[m] = Newline}
         IN  IF e < d \/ closing = {} THEN 0 ELSE MaxOf(closing)

\* re.sub(r'\n\s*\d+\s*\n', '\n', text)
RECURSIVE RemovePageNumbers(_)
RemovePageNumbers(t) ==
    LET starts == {i \in DOMAIN t : PageNumberEnd(t, i) > 0}
    IN  IF starts = {} THEN t
        ELSE LET i == MinOf(starts)
             IN  SubSeq(t, 1, i - 1) \o <<Newline>>
                 \o RemovePageNumbers(SubSeq(t, PageNumberEnd(t, i) + 1, Len(t)))

IsNotTableOfContents(c) == c # "Table of Contents"

\* text.split('\n\n')
RECURSIVE SplitBlankLines(_)
SplitBlankLines(t) ==
    LET breaks == {i \in 1..(Len(t) - 1) : t[i] = Newline /\ t[i + 1] = Newline}
    IN  IF breaks = {} THEN <<t>>
        ELSE <<SubSeq(t, 1, MinOf(breaks) - 1)>>
             \o SplitBlankLines(SubSeq(t, MinOf(breaks) + 2, Len(t)))

\* para.strip()
StripSpace(para) ==
    LET inner == {i \in DOMAIN para : ~IsSpace(para[i])}
    IN  IF inner = {} THEN <<>> ELSE SubSeq(para, MinOf(inner), MaxOf(inner))

\* re.search(r'^\s*\d+\s*$', para)
IsPageNumber(para) ==
    LET p == StripSpace(para)
    IN  p # <<>> /\ \A i \in DOMAIN p : IsDigits(p[i])

\* the paragraph is appended to clean_paragraphs
IsCleanParagraph(para) == para # <<>> /\ ~IsPageNumber(para)

\* '\n\n'.join(paragraphs)
RECURSIVE JoinBlankLines(_)
JoinBlankLines(paragraphs) ==
    IF paragraphs = <<>> THEN <<>>
    ELSE IF Len(paragraphs) = 1 THEN paragraphs[1]
    ELSE paragraphs[1] \o <<Newline, Newline>> \o JoinBlankLines(Tail(paragraphs))

\* the paragraphs of text.split('\n\n'), each stripped
StrippedParagraphs(t) ==
    LET paragraphs == SplitBlankLines(t)
    IN  [i \in DOMAIN paragraphs |-> StripSpace(paragraphs[i])]

\* TextExtractor._clean_text of the extractors
ExtCleanText(t) ==
    LET normal == SelectSeq(RemovePageNumbers(CollapseSpace(t)), IsNotTableOfContents)
    IN  JoinBlankLines(SelectSeq(StrippedParagraphs(normal), IsCleanParagraph))

ContentTokens == {"w", "7", " ", Newline, "Table of Contents"}

IdleCleanSegment == IdleCleaner /\ IdleSegmenter

InitExtClean ==
    /\ content \in SeqsUpTo(ContentTokens, MaxContentLen)
    /\ clean_text = NoResult
    /\ reclean_text = NoResult
    /\ IdleComparator /\ IdleSimilarity /\ IdleExtractor /\ IdleCleanSegment /\ IdleRest

\* clean_text = self._clean_text(content), in clean_risk_section
ExtCleanTextCall ==
    /\ clean_text' = ExtCleanText(content)
    /\ UNCHANGED <<content, reclean_text>>
    /\ UNCHANGED <<comparatorVars, similarityVars, extractorVars, segmenterVars, cleanerVars,
                   restVars>>

\* _clean_text applied to a text it returned
ExtRecleanCall ==
    /\ clean_text # NoResult
    /\ reclean_text' = ExtCleanText(clean_text)
    /\ UNCHANGED <<content, clean_text>>
    /\ UNCHANGED <<comparatorVars, similarityVars, extractorVars, segmenterVars, cleanerVars,
                   restVars>>

NextExtClean == ExtCleanTextCall \/ ExtRecleanCall

SpecExtClean == InitExtClean /\ [][NextExtClean]_vars

(***************************************************************************)
(* Properties of the cleaner of the CLI pipeline.                          *)
(***************************************************************************)
ExtCleaned == clean_text # NoResult

\* a paragraph as it stands between blank lines: single blanks between its
\* tokens, none at its ends, no newline and no boilerplate
IsPlainParagraph(p) ==
    /\ \A i \in DOMAIN p : p[i] # Newline /\ p[i] # "Table of Contents"
    /\ StripSpace(p) = p
    /\ \A i \in 1..(Len(p) - 1) : ~(p[i] = " " /\ p[i + 1] = " ")

\* the text is made of two or more paragraphs separated by blank lines
BlankLineSeparated(t) ==
    /\ Len(SplitBlankLines(t)) >= 2
    /\ \A i \in DOMAIN SplitBlankLines(t) : IsPlainParagraph(SplitBlankLines(t)[i])

\* the non-empty, not purely numeric paragraphs of t, separated by blank lines
KeptParagraphs(t) == JoinBlankLines(SelectSeq(SplitBlankLines(t), IsCleanParagraph))

\* C13: for an input made of paragraphs separated by blank lines, the output
\* of the extractors' _clean_text consists of exactly the paragraphs that are
\* non-empty and not purely numeric, in their order, separated by blank lines.
C13_BlankLineParagraphsKept ==
    (ExtCleaned /\ BlankLineSeparated(content)) => clean_text = KeptParagraphs(content)

\* the case of C13 on "w\n\n7": the blank line is gone before the split, the
\* two paragraphs come out as one and the page number stays
C13_ParagraphsMergedReached ==
    /\ ExtCleaned
    /\ content = <<"w", Newline, Newline, "7">>
    /\ clean_text = <<"w", " ", "7">>
    /\ KeptParagraphs(content) = <<"w">>

(***************************************************************************)
(* Both cleaners applied to their own results.                             *)
(***************************************************************************)
\* the blocks the raw texts of the processors' cleaner are made of
BlockHeader == <<"Risk Factors">>
BlockLead == ParaLead(MinParaWords + 2)
BlockPlain == ParaPlain(MinParaWords + 2) \o <<"risks.">>
BlockMention ==
    <<"The", "Company">> \o Filler(3) \o <<"Risk Factors">> \o Filler(MinParaWords) \o <<"risks.">>
BlockContents ==
    <<"The", "Company">> \o Filler(5) \o <<"Table of Contents">> \o Filler(5) \o <<"risks.">>
BlockTagged == <<"<b>", "Click here to view", "risk", "risks.">> \o BlockLead
BlockEnd == <<"Item", "1B">>

BlockPool == {BlockHeader, BlockLead, BlockPlain, BlockMention, BlockContents,
              BlockTagged, BlockEnd}

InitReclean ==
    /\ raw_text \in SeqsUpTo(BlockPool, MaxBlocks) \ {<<>>}
    /\ cleaned_text = NoResult
    /\ processed = NotCalled
    /\ recleaned = NoResult
    /\ IdleOtherCleaning

\* the processors' _clean_text applied to a result it returned; on None
\* raw_text.find raises inside the try and the result is None again
RecleanCall ==
    /\ cleaned_text # NoResult
    /\ recleaned' = IF cleaned_text = None THEN None ELSE CleanText(cleaned_text)
    /\ UNCHANGED <<raw_text, cleaned_text, processed>>
    /\ UNCHANGED <<comparatorVars, similarityVars, extractorVars, extCleanerVars, restVars>>

InitIdempotence == InitExtClean \/ InitReclean

NextIdempotence == ExtCleanTextCall \/ ExtRecleanCall \/ CleanTextCall \/ RecleanCall

SpecIdempotence == InitIdempotence /\ [][NextIdempotence]_vars

Recleaned == recleaned # NoResult
ExtRecleaned == reclean_text # NoResult

\* C12: both cleaners are idempotent: cleaning a text a cleaner returned
\* gives that same text again, clean(clean(x)) = clean(x).
C12_Idempotent ==
    /\ ExtRecleaned => reclean_text = clean_text
    /\ (Recleaned /\ recleaned = None) => cleaned_text = None
    /\ (Recleaned /\ recleaned # None) => (cleaned_text # None /\ recleaned = cleaned_text)

\* the case of C12 for the extractors: "w Table of Contents w" is cleaned to
\* "w  w" with two blanks, and that to "w w"
C12_ExtDoubleBlankReached ==
    /\ ExtRecleaned
    /\ content = <<"w", " ", "Table of Contents", " ", "w">>
    /\ clean_text = <<"w", " ", " ", "w">>
    /\ reclean_text = <<"w", " ", "w">>

\* the case of C12 for the processors: the header is cut at the first
\* "Risk Factors", the second application cuts at the next one
C12_SecondHeaderReached ==
    /\ Recleaned
    /\ raw_text = <<BlockHeader, BlockMention>>
    /\ cleaned_text = <<BlockMention>>
    /\ recleaned = <<Filler(MinParaWords) \o <<"risks.">> >>

(***************************************************************************)
(* RiskAnalyzer.compare_years (analyzers/risk_analyzer.py).  An exception  *)
(* that leaves a method is the value Raised; the result None of            *)
(* compare_years is the record ReturnedNone.                               *)
(***************************************************************************)
Raised == [raised |-> TRUE]
ReturnedNone == [returned |-> "None"]

RECURSIVE SumWordCount(_)
SumWordCount(risks) ==
    IF risks = <<>> THEN 0 ELSE Head(risks).word_count + SumWordCount(Tail(risks))

YearStatistics(risks) ==
    [total_risks |-> Len(risks),
     total_words |-> SumWordCount(risks),
     avg_words_per_risk |-> Frac(SumWordCount(risks), Len(risks))]

\* _compare_statistics: the division by len(...) raises ZeroDivisionError on
\* an empty list
CompareStatistics(current, previous) ==
    IF current = <<>> \/ previous = <<>> THEN Raised
    ELSE [total_risks_change |-> Len(current) - Len(previous),
          word_count_change |-> SumWordCount(current) - SumWordCount(previous),
          current_year |-> YearStatistics(current),
          previous_year |-> YearStatistics(previous)]

\* the replacement fields of USER_PROMPT_TEMPLATE, in the order of the text;
\* the last is opened by the brace of the JSON example
template_fields == <<"ticker", "prev_year", "prev_risks", "curr_year", "curr_risks",
                     "structural_analysis">>

\* USER_PROMPT_TEMPLATE.format(**keywords) raises KeyError
FormatRaises(keywords) == \E i \in DOMAIN template_fields : template_fields[i] \notin keywords

\* the keywords _get_ai_analysis passes to format
analysis_keywords == {"curr_risks", "prev_risks"}

\* what the client does when called: it raises, or its message content is
\* no JSON, or a JSON object without or with the fields of the example
LlmReplies == {"raises", "not json", "json without fields", "json complete"}

\* json.loads(response.choices[0].message.content)
JsonLoads(reply) ==
    IF reply = "not json" THEN Raised
    ELSE [fields |-> IF reply = "json complete"
                     THEN {"structural_analysis", "content_changes", "key_findings"}
                     ELSE {}]

\* the dictionary of the except branch
AnalysisError(e) ==
    [error |-> e, summary |-> "AI analysis failed",
     key_insights |-> <<"Analysis error occurred">>]

\* the body of the try of _get_ai_analysis
AiAnalysisBody(reply) ==
    IF FormatRaises(analysis_keywords) THEN Raised
    ELSE IF reply = "raises" THEN Raised
    ELSE JsonLoads(reply)

GetAiAnalysisNoCatch(reply) == AiAnalysisBody(reply)

\* _get_ai_analysis, for entries that carry 'title' and 'text'
GetAiAnalysis(reply) ==
    IF AiAnalysisBody(reply) = Raised
    THEN AnalysisError(IF FormatRaises(analysis_keywords) THEN "KeyError"
                       ELSE IF reply = "raises" THEN "client error"
                       ELSE "JSONDecodeError")
    ELSE AiAnalysisBody(reply)

\* whether _get_ai_analysis reaches chat.completions.create
CallsClient == ~FormatRaises(analysis_keywords)

\* _analyze_content_changes reads 'title' of every entry it reports: it
\* raises KeyError when an entry of either list has none
ContentChangesRaise(current, previous) ==
    \/ \E i \in DOMAIN current : "title" \notin DOMAIN current[i]
    \/ \E j \in DOMAIN previous : "title" \notin DOMAIN previous[j]

\* RiskAnalyzer.compare_years (the timestamp aside)
CompareYears(current, previous, reply) ==
    LET stats == CompareStatistics(current, previous)
        ai_analysis == GetAiAnalysis(reply)
    IN  IF stats = Raised \/ ContentChangesRaise(current, previous) \/ ai_analysis = Raised
        THEN ReturnedNone
        ELSE [statistics |-> stats,
              content_changes |-> AnalyzeContentChanges(current, previous),
              ai_analysis |-> ai_analysis]

YearLists == SeqsUpTo({Entry(Text7), Entry(Text8), Entry(Text10)}, MaxRisks)

InitCompareYears ==
    /\ current_risks \in YearLists
    /\ previous_risks \in YearLists
    /\ matches = NoResult
    /\ content_changes = NotCalled
    /\ llm_reply \in LlmReplies
    /\ llm_called = FALSE
    /\ comparison = NotCalled
    /\ IdleSimilarity /\ IdleExtractor /\ IdleSegmenter /\ IdleCleaner /\ IdleExtCleaner
    /\ IdleCli /\ IdleClient /\ IdleFetch /\ IdleRc /\ IdleStrategy

\* a call of compare_years with the two years' risk_factors lists
CompareYearsCall ==
    /\ comparison' = CompareYears(current_risks, previous_risks, llm_reply)
    /\ llm_called' = (CompareStatistics(current_risks, previous_risks) # Raised /\ CallsClient)
    /\ UNCHANGED <<comparatorVars, llm_reply>>
    /\ UNCHANGED <<similarityVars, extractorVars, segmenterVars, cleanerVars, extCleanerVars,
                   cliVars, limiterVars, requestVars, fetchVars, rcVars, strategyVars>>

NextCompareYears == CompareYearsCall

SpecCompareYears == InitCompareYears /\ [][NextCompareYears]_vars

Compared == comparison # NotCalled

\* the summarization of the call fails: the prompt cannot be built, the
\* client raises, or its reply is no JSON
SummarizationFails ==
    FormatRaises(analysis_keywords) \/ llm_reply \in {"raises", "not json"}

NumProbedYears == 3
MinYears == 2

\* the names bound at module level in analyze_risks.py
module_names == {"logging", "Path", "yf", "datetime", "TextExtractor", "GPTAnalyzer",
                 "RAW_DATA_DIR", "logger", "analyze_company_risks"}

\* GPTAnalyzer.analyze_changes: the message content as it came, or None when
\* reading the files or the client call raised
AnalyzeChanges(reply) == IF reply = "raises" THEN None ELSE reply

\* the try of the display step raises: json is looked up first, then the
\* text is parsed and the fields are read
DisplayRaises(a) ==
    \/ "json" \notin module_names
    \/ a = "not json"
    \/ a = "json without fields"

TooFewYearsOne(years) == Len(years) < 1

\* len(available_years) < 2
TooFewYears(years) == Len(years) < MinYears

EitherOk(r1, r2) == r1 \/ r2

\* the negation of "not r1 or not r2"
BothOk(r1, r2) == r1 /\ r2

Call(stage, year, ok) == [stage |-> stage, year |-> year, ok |-> ok]

\* ---------------------------------------------------------------------
\* TextExtractor.download_10k (extractors/text_extractor.py) with the
\* requests it makes and the .htm file it keeps per filing.  The filing
\* of a year stands for its (ticker, filing date).
\* ---------------------------------------------------------------------
Years == 1..NumProbedYears

\* the endpoints of _get_cik_number, of _get_filing_info, and the document
cik_urls  == <<"files/company_tickers.json", "browse-edgar?CIK">>
info_urls == <<"submissions/CIK.json", "browse-edgar?action=getcompany">>
body_url  == "Archives/edgar/data"

\* what the endpoints of one lookup answer, in the order they are asked: the
\* second is asked only when the first answered without the entry
LookupPaths == {<<"found">>, <<"not found", "found">>, <<"not found", "not found">>,
                <<"raises">>, <<"not found", "raises">>}

\* the document request and the write of the file
BodyAnswers == {"saved", "write raises", "raises"}

Requests(urls, path) == [i \in 1..Len(path) |-> [url |-> urls[i], result |-> path[i]]]

Found(path) == path[Len(path)] = "found"

IsCachedNever(file) == FALSE

\* html_file.exists()
IsCached(file) == file # NoFile

\* download_10k for a filing whose file holds `file`
Download10k(file, cik_path, info_path, body_answer) ==
    LET cik  == Requests(cik_urls, cik_path)
        info == Requests(info_urls, info_path)
    IN  IF ~Found(cik_path)
        THEN [file |-> file, requests |-> cik, lookup |-> "failed",
              requested |-> FALSE, wrote |-> FALSE, returned |-> FALSE]
        ELSE IF ~Found(info_path)
        THEN [file |-> file, requests |-> cik \o info, lookup |-> "failed",
              requested |-> FALSE, wrote |-> FALSE, returned |-> FALSE]
        ELSE IF IsCached(file)
        THEN [file |-> file, requests |-> cik \o info, lookup |-> "found",
              requested |-> FALSE, wrote |-> FALSE, returned |-> TRUE]
        ELSE [file |-> CASE body_answer = "saved" -> "body"
                         [] body_answer = "write raises" -> "partial"
                         [] OTHER -> file,
              requests |-> cik \o info \o
                           <<[url |-> body_url,
                              result |-> IF body_answer = "raises" THEN "raises"
                                         ELSE "found"]>>,
              lookup |-> "found",
              requested |-> TRUE,
              wrote |-> body_answer # "raises",
              returned |-> body_answer = "saved"]

\* every way a call of download_10k can go for a filing whose file holds `file`
Download10kResults(file) ==
    {Download10k(file, c, i, b) : c \in LookupPaths, i \in LookupPaths, b \in BodyAnswers}

\* what the run keeps of a call: the year, the file before and after, and
\* what the call did
Summary(year, before, d) ==
    [year |-> year, lookup |-> d.lookup, before |-> before, after |-> d.file,
     requested |-> d.requested, wrote |-> d.wrote, returned |-> d.returned]

InitCli ==
    /\ pc = "lookup"
    /\ probed = 0
    /\ available_years = <<>>
    /\ selected = <<>>
    /\ prompts = 0
    /\ calls = <<>>
    /\ report = ""
    /\ analysis = NoResult
    /\ llm_reply \in LlmReplies
    /\ llm_called = FALSE
    /\ comparison = NotCalled
    /\ html_files \in [Years -> {NoFile, "body"}]
    /\ downloads = <<>>
    /\ download = NotCalled
    /\ IdleComparator /\ IdleSimilarity /\ IdleExtractor /\ IdleSegmenter
    /\ IdleCleaner /\ IdleExtCleaner /\ IdleClient /\ IdleRc /\ IdleStrategy

CliOthersUnchanged ==
    UNCHANGED <<comparatorVars, similarityVars, extractorVars, segmenterVars,
                cleanerVars, extCleanerVars, analyzerVars, limiterVars, requestVars,
                rcVars, strategyVars>>

\* lines 22-41: the company is looked up; a failure is reported
LookupCompany ==
    /\ pc = "lookup"
    /\ \E found \in BOOLEAN :
         IF found THEN pc' = "construct" /\ UNCHANGED report
         ELSE pc' = "returned" /\ report' = "Could not verify company. Please try again."
    /\ UNCHANGED <<probed, available_years, selected, prompts, calls, analysis, fetchVars>>
    /\ CliOthersUnchanged

\* lines 44-45: TextExtractor() and GPTAnalyzer(); OpenAI() raises when it
\* finds no key, and no try surrounds the two constructors
Construct ==
    /\ pc = "construct"
    /\ \E constructed \in BOOLEAN : pc' = IF constructed THEN "probe" ELSE "raised"
    /\ UNCHANGED <<probed, available_years, selected, prompts, calls, report, analysis,
                   fetchVars>>
    /\ CliOthersUnchanged

\* lines 55-63: one turn of the discovery loop, and the test after the last
ProbeYear ==
    /\ pc = "probe"
    /\ \E d \in Download10kResults(html_files[probed + 1]) :
         LET year   == probed + 1
             filing == d.returned
             years  == IF filing THEN Append(available_years, year)
                       ELSE available_years
         IN  /\ html_files' = [html_files EXCEPT ![year] = d.file]
             /\ downloads' = Append(downloads, Summary(year, html_files[year], d))
             /\ calls' = Append(calls, Call("probe", year, filing))
             /\ available_years' = years
             /\ probed' = probed + 1
             /\ IF probed + 1 < NumProbedYears
                THEN pc' = "probe" /\ UNCHANGED report
                ELSE IF TooFewYears(years)
                     THEN /\ pc' = "returned"
                          /\ report' = "Could not find enough 10-K filings for analysis"
                     ELSE pc' = "select" /\ UNCHANGED report
    /\ UNCHANGED <<selected, prompts, analysis, download>>
    /\ CliOthersUnchanged

\* lines 71-79: one turn of the input loop; index 0 stands for an answer
\* that does not parse
SelectYears ==
    /\ pc = "select"
    /\ \E idx1 \in 0..(NumProbedYears + 1), idx2 \in 0..(NumProbedYears + 1) :
         LET valid == /\ 1 <= idx1 /\ idx1 <= Len(available_years)
                      /\ 1 <= idx2 /\ idx2 <= Len(available_years)
                      /\ idx1 # idx2
         IN  IF valid
             THEN /\ selected' = <<available_years[idx1], available_years[idx2]>>
                  /\ pc' = "fetch"
             ELSE /\ prompts < MaxPrompts
                  /\ UNCHANGED <<selected, pc>>
    /\ prompts' = prompts + 1
    /\ UNCHANGED <<probed, available_years, calls, report, analysis, fetchVars>>
    /\ CliOthersUnchanged

\* two calls of one stage for the two years and the test that follows
StageStep(here, next, message) ==
    /\ \E r1 \in BOOLEAN, r2 \in BOOLEAN :
         /\ calls' = calls \o <<Call(here, selected[1], r1), Call(here, selected[2], r2)>>
         /\ IF BothOk(r1, r2) THEN pc' = next /\ UNCHANGED report
            ELSE pc' = "returned" /\ report' = message
    /\ UNCHANGED <<probed, available_years, selected, prompts, analysis, fetchVars>>
    /\ CliOthersUnchanged

\* lines 87-93: download_10k for the two selected years and the test
Fetch ==
    /\ pc = "fetch"
    /\ \E d1 \in Download10kResults(html_files[selected[1]]) :
       \E d2 \in Download10kResults([html_files EXCEPT ![selected[1]] = d1.file][selected[2]]) :
         LET year1  == selected[1]
             year2  == selected[2]
             files1 == [html_files EXCEPT ![year1] = d1.file]
         IN  /\ html_files' = [files1 EXCEPT ![year2] = d2.file]
             /\ downloads' = downloads \o <<Summary(year1, html_files[year1], d1),
                                            Summary(year2, files1[year2], d2)>>
             /\ calls' = calls \o <<Call("fetch", year1, d1.returned),
                                    Call("fetch", year2, d2.returned)>>
             /\ IF BothOk(d1.returned, d2.returned) THEN pc' = "extract" /\ UNCHANGED report
                ELSE pc' = "returned" /\ report' = "Error downloading 10-K filings"
    /\ UNCHANGED <<probed, available_years, selected, prompts, analysis, download>>
    /\ CliOthersUnchanged

\* lines 96-102
Extract ==
    /\ pc = "extract"
    /\ StageStep("extract", "clean", "Error extracting risk sections")

\* lines 105-111
Clean ==
    /\ pc = "clean"
    /\ StageStep("clean", "summarize", "Error cleaning risk sections")

\* lines 115-120
Summarize ==
    /\ pc = "summarize"
    /\ analysis' = AnalyzeChanges(llm_reply)
    /\ calls' = Append(calls, Call("summarize", 0, llm_reply # "raises"))
    /\ IF AnalyzeChanges(llm_reply) = None
       THEN pc' = "returned" /\ report' = "Error analyzing risk factors"
       ELSE pc' = "display" /\ UNCHANGED report
    /\ UNCHANGED <<probed, available_years, selected, prompts, fetchVars>>
    /\ CliOthersUnchanged

\* lines 123-166
Display ==
    /\ pc = "display"
    /\ pc' = "returned"
    /\ report' = IF DisplayRaises(analysis) THEN "Error displaying analysis results"
                 ELSE "Analysis complete!"
    /\ UNCHANGED <<probed, available_years, selected, prompts, calls, analysis, fetchVars>>
    /\ CliOthersUnchanged

NextCli ==
    \/ LookupCompany \/ Construct \/ ProbeYear \/ SelectYears
    \/ Fetch \/ Extract \/ Clean \/ Summarize \/ Display

SpecCli == InitCli /\ [][NextCli]_vars

(***************************************************************************)
(* Properties of the command line run.                                     *)
(***************************************************************************)
StageIndices(stage) == {i \in DOMAIN calls : calls[i].stage = stage}

\* the summarizer has returned
Summarized == StageIndices("summarize") # {}

\* C15: a reply of the summarizer that is valid JSON but lacks the required
\* fields is reported as a summarization failure and is never returned to
\* the caller as a successful analysis.
C15_ReplyWithoutFieldsRejected ==
    (Summarized /\ llm_reply = "json without fields") =>
        /\ analysis = None
        /\ pc = "returned"
        /\ report = "Error analyzing risk factors"

\* the case of C15: analyze_changes has returned the reply without the
\* fields and the run has gone on to the display step
C15_ReplyWithoutFieldsReturnedReached ==
    /\ Summarized
    /\ llm_reply = "json without fields"
    /\ analysis = "json without fields"
    /\ pc = "display"
    /\ report = ""

\* C16: no exception propagates out of analyze_company_risks, whichever
\* stages fail.
C16_NothingFatal == pc # "raised"

\* the case of C16: the company was found, a constructor raised, and the run
\* ended by the exception with nothing reported
C16_ConstructorRaisedReached ==
    /\ pc = "raised"
    /\ report = ""
    /\ calls = <<>>

\* C17: when fewer than two of the probed years yield a filing, the run
\* reports the failure and returns, without prompting for the years and
\* without a call of extract_risk_section, clean_risk_section or the
\* summarizer.
C17_TooFewYearsAborts ==
    (probed = NumProbedYears /\ Len(available_years) < 2) =>
        /\ pc = "returned"
        /\ report = "Could not find enough 10-K filings for analysis"
        /\ prompts = 0
        /\ \A i \in DOMAIN calls : calls[i].stage = "probe"

\* C17 witness: three years were probed, one had a filing, and the run has
\* returned with the report after the three probes.
C17_Witness ==
    /\ probed = NumProbedYears
    /\ available_years = <<2>>
    /\ pc = "returned"
    /\ Len(calls) = NumProbedYears
    /\ report = "Could not find enough 10-K filings for analysis"

\* the calls of a stage before position i that succeeded
OkBefore(stage, i) == {j \in StageIndices(stage) : j < i /\ calls[j].ok}

\* C18 as stated: the stages run in the order fetch, extract, clean, segment,
\* compare, summarize, so the summarizer is called only after a segment stage
\* and a compare stage have succeeded for both years.
C18_SixStagesInOrder ==
    \A i \in StageIndices("summarize") :
        /\ Cardinality(OkBefore("clean", i)) = 2
        /\ Cardinality(OkBefore("segment", i)) = 2
        /\ OkBefore("compare", i) # {}

\* C18 amended: the run has the four stages fetch, extract, clean, summarize
\* in this order; a stage is called only after both calls of the stage
\* before it succeeded, for the two selected years, and the summarizer is
\* called at most once.
C18_FourStagesInOrder ==
    /\ \A i \in StageIndices("extract") :
           {calls[j].year : j \in OkBefore("fetch", i)} = Range(selected)
    /\ \A i \in StageIndices("clean") :
           {calls[j].year : j \in OkBefore("extract", i)} = Range(selected)
    /\ \A i \in StageIndices("summarize") :
           {calls[j].year : j \in OkBefore("clean", i)} = Range(selected)
    /\ \A i \in DOMAIN calls : calls[i].stage # "probe" => Len(selected) = 2
    /\ Cardinality(StageIndices("summarize")) <= 1
    /\ \A i \in DOMAIN calls : \A j \in DOMAIN calls :
           (i < j /\ calls[i].stage # calls[j].stage) =>
               <<calls[i].stage, calls[j].stage>> \in
                   {<<"probe", "fetch">>, <<"probe", "extract">>, <<"probe", "clean">>,
                    <<"probe", "summarize">>, <<"fetch", "extract">>, <<"fetch", "clean">>,
                    <<"fetch", "summarize">>, <<"extract", "clean">>,
                    <<"extract", "summarize">>, <<"clean", "summarize">>}

\* C18 witness: the summarizer has been called, after three probes and two
\* successful calls each of fetch, extract and clean.
C18_Witness ==
    /\ Summarized
    /\ Len(calls) = NumProbedYears + 7
    /\ selected = <<3, 1>>
    /\ calls[NumProbedYears + 7].stage = "summarize"


\* ---------------------------------------------------------------------
\* SECClient (collectors/sec_client.py): the windowed rate limiter and
\* the retry loop of _make_request.  Times are in tenths of a second.
\* time.time() is the wall clock: successive readings never decrease and
\* are otherwise free, a sleep does not oblige the clock to advance.
\* ---------------------------------------------------------------------
max_requests_per_window == 10
window_duration == 10
Tenth == 1
default_max_retries == 3

ClockReadings == 1..MaxClock

\* the latest reading of time.time() taken so far
LastRead == IF last_request_time > window_start THEN last_request_time ELSE window_start

AtLimitStrict(count) == count > max_requests_per_window

\* if self.request_count >= self.max_requests_per_window
AtLimit(count) == count >= max_requests_per_window

\* _enforce_rate_limit with its readings of time.time(): t0 on entry, t1 after
\* the sleep at the limit, t2 when it returns
EnforceRateLimit(t0, t1, t2) ==
    LET new_window == t0 - window_start >= window_duration
        started    == IF new_window THEN t0 ELSE window_start
        counted    == IF new_window THEN 0 ELSE request_count
        sleep_time == window_duration - (t0 - started) + Tenth
        sleeps     == AtLimit(counted) /\ sleep_time > 0
    IN  /\ current_time' = t0
        /\ limit_sleep' = IF sleeps THEN sleep_time ELSE 0
        /\ window_start' = IF sleeps THEN t1 ELSE started
        /\ request_count' = (IF sleeps THEN 0 ELSE counted) + 1
        /\ last_request_time' = t2

\* one call of _enforce_rate_limit at some non-decreasing readings
RateLimited ==
    \E t0 \in LastRead..MaxClock : \E t1 \in t0..MaxClock : \E t2 \in t1..MaxClock :
        EnforceRateLimit(t0, t1, t2)

\* SECClient.__init__
InitLimiter ==
    /\ request_count = 0
    /\ window_start \in ClockReadings
    /\ last_request_time = 0
    /\ current_time = 0
    /\ limit_sleep = 0

IdleBeforeClient ==
    /\ IdleComparator /\ IdleSimilarity /\ IdleExtractor /\ IdleSegmenter
    /\ IdleCleaner /\ IdleExtCleaner /\ IdleAnalyzer /\ IdleCli /\ IdleFetch /\ IdleRc /\ IdleStrategy

ClientOthersUnchanged ==
    UNCHANGED <<comparatorVars, similarityVars, extractorVars, segmenterVars,
                cleanerVars, extCleanerVars, analyzerVars, cliVars, fetchVars, rcVars, strategyVars>>

InitRateLimit == IdleBeforeClient /\ InitLimiter /\ IdleRequest

EnforceRateLimitCall ==
    /\ RateLimited
    /\ UNCHANGED requestVars
    /\ ClientOthersUnchanged

NextRateLimit == EnforceRateLimitCall

SpecRateLimit == InitRateLimit /\ [][NextRateLimit]_vars

\* (C20) after any call of _enforce_rate_limit the count of the current window
\* is between 1 and max_requests_per_window, and a call that arrives inside the
\* current window when the count has reached the limit sleeps to the end of the
\* window, starts a new window and is counted as its first request
C20_WindowedLimit ==
    /\ [](last_request_time # 0 => request_count \in 1..max_requests_per_window)
    /\ [][(/\ RateLimited
           /\ request_count >= max_requests_per_window
           /\ current_time' - window_start < window_duration)
          => (/\ limit_sleep' = window_duration - (current_time' - window_start) + Tenth
              /\ limit_sleep' > 0
              /\ window_start' >= current_time'
              /\ request_count' = 1)]_vars

C20_Witness ==
    /\ limit_sleep > 0
    /\ request_count = 1
    /\ window_start >= current_time


\* what one attempt of _make_request meets: a response with a good status, a
\* requests.exceptions.RequestException (raise_for_status included), or an
\* exception of another type
Outcomes == {"response", "RequestException", "other exception"}

WaitTimeFixed(k) == 2

\* wait_time = (attempt + 1) * 2
WaitTime(k) == (k + 1) * 2

Running       == [state |-> "running"]
Returned(v)   == [state |-> "returned", value |-> v]
Propagated    == [state |-> "raised"]

\* _make_request has been called with some max_retries on a new client
InitRequest ==
    /\ IdleBeforeClient /\ InitLimiter
    /\ max_retries \in 0..MaxRetriesArg
    /\ attempt = 0
    /\ requests_made = 0
    /\ wait_times = <<>>
    /\ response = Running

\* one turn of the loop: the rate limiter, requests.get, raise_for_status, and
\* on a request error the sleep of wait_time
Attempt ==
    /\ response = Running
    /\ attempt < max_retries
    /\ RateLimited
    /\ requests_made' = requests_made + 1
    /\ \E outcome \in Outcomes :
          CASE outcome = "response" ->
                 /\ response' = Returned("response")
                 /\ UNCHANGED <<attempt, wait_times>>
            [] outcome = "RequestException" ->
                 /\ wait_times' = Append(wait_times, WaitTime(attempt))
                 /\ attempt' = attempt + 1
                 /\ UNCHANGED response
            [] OTHER ->
                 /\ response' = Propagated
                 /\ UNCHANGED <<attempt, wait_times>>
    /\ UNCHANGED max_retries
    /\ ClientOthersUnchanged

\* the loop is over: return None
ReturnNone ==
    /\ response = Running
    /\ attempt >= max_retries
    /\ response' = Returned(None)
    /\ UNCHANGED <<max_retries, attempt, requests_made, wait_times, limiterVars>>
    /\ ClientOthersUnchanged

NextRequest == Attempt \/ ReturnNone

SpecRequest == InitRequest /\ [][NextRequest]_vars

\* (C19) _make_request makes at most max_retries requests; it returns the first
\* good response without a further attempt; it returns None once every attempt
\* has failed with a request error; each wait after a failed attempt is longer
\* than the wait before it
C19_BoundedRetry ==
    /\ requests_made <= max_retries
    /\ response = Returned("response") =>
           requests_made = Len(wait_times) + 1 /\ ~ENABLED Attempt
    /\ response = Returned(None) =>
           requests_made = max_retries /\ Len(wait_times) = max_retries
    /\ (response = Running /\ Len(wait_times) = max_retries) => ENABLED ReturnNone
    /\ \A k \in 2..Len(wait_times) : wait_times[k] > wait_times[k - 1]

C19_Witness ==
    /\ max_retries = default_max_retries
    /\ response = Returned(None)
    /\ requests_made = default_max_retries
    /\ wait_times = <<2, 4, 6>>


\* ---------------------------------------------------------------------
\* download_10k called on its own, for any year and any state of the files
\* ---------------------------------------------------------------------
FileContents == {NoFile, "partial", "body"}

InitDownload ==
    /\ IdleComparator /\ IdleSimilarity /\ IdleExtractor /\ IdleSegmenter
    /\ IdleCleaner /\ IdleExtCleaner /\ IdleAnalyzer /\ IdleCli /\ IdleClient /\ IdleRc /\ IdleStrategy
    /\ html_files \in [Years -> FileContents]
    /\ downloads = <<>>
    /\ download = NotCalled

Download10kCall ==
    /\ \E year \in Years : \E d \in Download10kResults(html_files[year]) :
         /\ download' = [year |-> year, before |-> html_files[year], requests |-> d.requests,
                         lookup |-> d.lookup, requested |-> d.requested, wrote |-> d.wrote,
                         returned |-> d.returned]
         /\ html_files' = [html_files EXCEPT ![year] = d.file]
    /\ UNCHANGED downloads
    /\ UNCHANGED <<comparatorVars, similarityVars, extractorVars, segmenterVars,
                   cleanerVars, extCleanerVars, analyzerVars, cliVars, limiterVars,
                   requestVars, rcVars, strategyVars>>

NextDownload == Download10kCall

SpecDownload == InitDownload /\ [][NextDownload]_vars

BodyRequests(year) == {i \in DOMAIN downloads : downloads[i].year = year /\ downloads[i].requested}

C27_FailedRequestRetried ==
    download # NotCalled =>
        \A i \in DOMAIN download.requests :
            download.requests[i].result = "raises" =>
                \E j \in DOMAIN download.requests :
                    j > i /\ download.requests[j].url = download.requests[i].url

\* C27: the CIK request raised, it was the only request of the call, and
\* download_10k returned None
C27_SingleAttemptReached ==
    /\ download # NotCalled
    /\ download.requests = <<[url |-> cik_urls[1], result |-> "raises"]>>
    /\ ~download.returned


\* ---------------------------------------------------------------------
\* RiskComparator (analyzers/risk_comparator.py): compare_years over the
\* risk_factors.json files of two year directories.  A directory is named
\* by its filing date; the larger number is the more recent.
\* ---------------------------------------------------------------------
NoRfFile == [exists |-> FALSE]
RfFile(risks) == [exists |-> TRUE, risk_factors |-> risks]

RfFiles == {NoRfFile, RfFile(<<>>), RfFile(<<Entry(Text7)>>),
            RfFile(<<Entry(Text8), Entry(Text10)>>), RfFile(<<EntryOf(<<ParaLead(MinWords + 1)>>)>>)}

\* "\n\n".join(f"{r['title']}\n{r['text']}" for r in data['risk_factors']), as words
RECURSIVE RfContent(_)
RfContent(risks) ==
    IF risks = <<>> THEN <<>>
    ELSE <<Head(risks).title>> \o Head(risks).text \o RfContent(Tail(risks))

\* _load_risk_factors: None when the file is missing or reading an entry raises
LoadRiskFactors(file) ==
    IF ~file.exists THEN ReturnedNone
    ELSE IF \E i \in DOMAIN file.risk_factors :
               {"title", "text", "word_count"} \ DOMAIN file.risk_factors[i] # {}
    THEN ReturnedNone
    ELSE [content |-> RfContent(file.risk_factors),
          word_count |-> SumWordCount(file.risk_factors)]

\* the keywords _analyze_changes passes to format
comparator_keywords == {"ticker", "curr_year", "prev_year", "curr_risks", "prev_risks"}

\* RiskComparator._analyze_changes
RcAnalyzeChanges(reply) ==
    IF FormatRaises(comparator_keywords) THEN ReturnedNone
    ELSE IF reply = "raises" THEN ReturnedNone
    ELSE IF JsonLoads(reply) = Raised THEN ReturnedNone
    ELSE JsonLoads(reply)

\* RiskComparator.compare_years: the value returned and the directory the
\* comparison is written to, 0 when nothing is written
RcCompareYears(files, year1, year2, reply) ==
    LET rf1 == LoadRiskFactors(files[year1])
        rf2 == LoadRiskFactors(files[year2])
    IN  IF rf1 = ReturnedNone \/ rf2 = ReturnedNone
        THEN [result |-> ReturnedNone, output_dir |-> 0, called_client |-> FALSE]
        ELSE LET similarity_score == CalculateSimilarity(rf1.content, rf2.content)
                 ai_analysis      == RcAnalyzeChanges(reply)
             IN  IF ai_analysis = ReturnedNone
                 THEN [result |-> ReturnedNone, output_dir |-> 0,
                       called_client |-> ~FormatRaises(comparator_keywords)]
                 ELSE [result |-> [current_year |-> year1,
                                   previous_year |-> year2,
                                   similarity_score |-> similarity_score,
                                   analysis |-> ai_analysis,
                                   metadata |->
                                     [current_word_count |-> rf1.word_count,
                                      previous_word_count |-> rf2.word_count,
                                      word_count_change |-> rf1.word_count - rf2.word_count]],
                       output_dir |-> year1,
                       called_client |-> TRUE]

InitRiskComparator ==
    /\ IdleComparator /\ IdleSimilarity /\ IdleExtractor /\ IdleSegmenter
    /\ IdleCleaner /\ IdleExtCleaner /\ IdleCli /\ IdleClient /\ IdleFetch /\ IdleStrategy
    /\ llm_reply \in LlmReplies
    /\ llm_called = FALSE
    /\ comparison = NotCalled
    /\ rf_files \in [Years -> RfFiles]
    /\ comparison_files = {}
    /\ rc_args = <<>>
    /\ rc_result = NotCalled

RcCompareYearsCall ==
    /\ \E year1 \in Years, year2 \in Years :
         LET r == RcCompareYears(rf_files, year1, year2, llm_reply)
         IN  /\ rc_args' = <<year1, year2>>
             /\ rc_result' = r.result
             /\ llm_called' = r.called_client
             /\ comparison_files' = IF r.output_dir = 0 THEN comparison_files
                                    ELSE comparison_files \cup {r.output_dir}
    /\ UNCHANGED <<rf_files, llm_reply, comparison>>
    /\ UNCHANGED <<comparatorVars, similarityVars, extractorVars, segmenterVars,
                   cleanerVars, extCleanerVars, cliVars, limiterVars, requestVars,
                   fetchVars, strategyVars>>

NextRiskComparator == RcCompareYearsCall

SpecRiskComparator == InitRiskComparator /\ [][NextRiskComparator]_vars

BothLoaded ==
    /\ rc_args # <<>>
    /\ LoadRiskFactors(rf_files[rc_args[1]]) # ReturnedNone
    /\ LoadRiskFactors(rf_files[rc_args[2]]) # ReturnedNone

MoreRecent(years) == IF years[1] >= years[2] THEN years[1] ELSE years[2]

\* (C22) after compare_years for two different years whose risk factors load
\* and whose summarizer answers with the JSON object, the comparison file is
\* in the directory of the more recent year, whichever was passed first
C22_WrittenUnderMoreRecentYear ==
    (BothLoaded /\ rc_args[1] # rc_args[2] /\ llm_reply = "json complete") =>
        MoreRecent(rc_args) \in comparison_files

\* C22: the older year was passed first, both files loaded, the summarizer
\* would answer, and no comparison file has been written anywhere
C22_NothingWrittenReached ==
    /\ BothLoaded /\ rc_args[1] < rc_args[2] /\ llm_reply = "json complete"
    /\ comparison_files = {}
    /\ rc_result = ReturnedNone

\* (C26) after compare_years for two years whose risk factors load, when the
\* summarization fails the result is not None and holds the similarity score
\* and the word counts
C26_DegradedResult ==
    (BothLoaded /\ (FormatRaises(comparator_keywords) \/ llm_reply \in {"raises", "not json"})) =>
        /\ rc_result # ReturnedNone
        /\ {"similarity_score", "metadata"} \subseteq DOMAIN rc_result

\* C26: both files loaded, the client raises, and compare_years returned None
C26_AbsentResultReached ==
    /\ BothLoaded /\ llm_reply = "raises"
    /\ rc_result = ReturnedNone


\* ---------------------------------------------------------------------
\* find_risk_section of the processors' _extract_raw_section.  The parsed
\* document is a sequence of sibling <div> and <p> elements under the
\* body, each holding one text.
\* ---------------------------------------------------------------------
risk_markers == <<"Item 1A. Risk Factors", "ITEM 1A. RISK FACTORS", "Item 1A-Risk Factors",
                  "Item 1A: Risk Factors", "Item 1A - Risk Factors">>

content_markers == <<"The Company's business, reputation, results",
                     "Because of the following factors", "The following risk factors",
                     "Risks affecting our business">>

LinkedMarker == "<a>Item 1A. Risk Factors</a>"

ElementTexts == {"Item 1A. Risk Factors", "ITEM 1A. RISK FACTORS", LinkedMarker,
                 "The following risk factors", "Risk Factors"}

\* the elements documents are made of: a <div> with any of the texts, a <p>
\* with the marker or with an ordinary word
Elements == [tag : {"div"}, text : ElementTexts]
            \cup [tag : {"p"}, text : {"Item 1A. Risk Factors", "w"}]

\* the phrases looked for that element.get_text() contains
Phrases(e) ==
    CASE e.text \in {"Item 1A. Risk Factors", LinkedMarker} ->
             {"Item 1A. Risk Factors", "Item 1A", "Risk Factors"}
      [] e.text = "ITEM 1A. RISK FACTORS" -> {"ITEM 1A. RISK FACTORS"}
      [] e.text = "The following risk factors" -> {"The following risk factors"}
      [] e.text = "Risk Factors" -> {"Risk Factors"}
      [] OTHER -> {}

HasContentMarker(e) == \E m \in DOMAIN content_markers : content_markers[m] \in Phrases(e)

\* the element has a string with the marker that is not inside a link
HasOwnString(e, marker) == marker \in Phrases(e) /\ e.text # LinkedMarker

\* element.find_parent(['div', 'section']) finds a container
InContainer(e) == e.tag = "div"

\* the first three of the siblings after position i, and before it
NextSiblings(doc, i) == {j \in DOMAIN doc : i < j /\ j <= i + 3}
PrevSiblings(doc, i) == {j \in DOMAIN doc : i - 3 <= j /\ j < i}

\* find_next_siblings('div', limit=3)
NextDivs(doc, i) ==
    {j \in DOMAIN doc : /\ i < j /\ doc[j].tag = "div"
                        /\ Cardinality({k \in DOMAIN doc : i < k /\ k <= j /\ doc[k].tag = "div"}) <= 3}

\* the first pair <<marker, position>> of the two nested loops, as a position
FirstByMarker(found) ==
    IF found = {} THEN 0
    ELSE LET m  == MinOf({p[1] : p \in found})
             at == {p[2] : p \in {q \in found : q[1] = m}}
         IN  MinOf(at)

\* Strategy 1
FindBySectionMarker(doc) ==
    FirstByMarker({<<m, i>> \in (DOMAIN risk_markers) \X (DOMAIN doc) :
                      /\ HasOwnString(doc[i], risk_markers[m])
                      /\ InContainer(doc[i])
                      /\ \E j \in NextSiblings(doc, i) : HasContentMarker(doc[j])})

\* Strategy 2
FindByContent(doc) ==
    FirstByMarker({<<m, i>> \in (DOMAIN content_markers) \X (DOMAIN doc) :
                      /\ HasOwnString(doc[i], content_markers[m])
                      /\ InContainer(doc[i])
                      /\ \E j \in PrevSiblings(doc, i) : "Risk Factors" \in Phrases(doc[j])})

\* Strategy 3
FindByStructure(doc) ==
    FirstByMarker({<<1, i>> : i \in {k \in DOMAIN doc :
                      /\ doc[k].tag = "div"
                      /\ "Item 1A" \in Phrases(doc[k]) /\ "Risk Factors" \in Phrases(doc[k])
                      /\ \E j \in NextDivs(doc, k) : HasContentMarker(doc[j])}})

strategies == <<"find_by_section_marker", "find_by_content", "find_by_structure">>

Strategy(name, doc) ==
    CASE name = "find_by_section_marker" -> FindBySectionMarker(doc)
      [] name = "find_by_content" -> FindByContent(doc)
      [] OTHER -> FindByStructure(doc)

RECURSIVE StrategyLoopNoStop(_, _, _, _)
StrategyLoopNoStop(doc, k, log, last) ==
    IF k > Len(strategies) THEN [invoked |-> log, result |-> last]
    ELSE LET result == Strategy(strategies[k], doc)
         IN  StrategyLoopNoStop(doc, k + 1,
                                Append(log, [strategy |-> strategies[k], result |-> result]),
                                IF result # 0 THEN result ELSE last)

\* the loop of find_risk_section from its k-th strategy on
RECURSIVE StrategyLoop(_, _, _, _)
StrategyLoop(doc, k, log, last) ==
    IF k > Len(strategies) THEN [invoked |-> log, result |-> 0]
    ELSE LET result == Strategy(strategies[k], doc)
             called == Append(log, [strategy |-> strategies[k], result |-> result])
         IN  IF result # 0 THEN [invoked |-> called, result |-> result]
             ELSE StrategyLoop(doc, k + 1, called, last)

FindRiskSection(doc) == StrategyLoop(doc, 1, <<>>, 0)

InitFindSection ==
    /\ IdleComparator /\ IdleSimilarity /\ IdleExtractor /\ IdleSegmenter
    /\ IdleCleaner /\ IdleExtCleaner /\ IdleAnalyzer /\ IdleCli /\ IdleClient
    /\ IdleFetch /\ IdleRc
    /\ soup \in SeqsUpTo(Elements, MaxElems)
    /\ invoked = <<>>
    /\ risk_section = -1

FindRiskSectionCall ==
    /\ invoked' = FindRiskSection(soup).invoked
    /\ risk_section' = FindRiskSection(soup).result
    /\ UNCHANGED soup
    /\ UNCHANGED <<comparatorVars, similarityVars, extractorVars, segmenterVars,
                   cleanerVars, extCleanerVars, analyzerVars, cliVars, limiterVars,
                   requestVars, fetchVars, rcVars>>

NextFindSection == FindRiskSectionCall

SpecFindSection == InitFindSection /\ [][NextFindSection]_vars

\* (C23) the strategies are called in the order section marker, content
\* marker, document structure; a strategy is called only when every strategy
\* before it returned nothing; the section returned is the result of the
\* first strategy that returned one, and None when all three returned nothing
C23_StrategiesInPriorityOrder ==
    risk_section # -1 =>
        /\ Len(invoked) \in 1..Len(strategies)
        /\ \A k \in DOMAIN invoked :
               /\ invoked[k].strategy = strategies[k]
               /\ invoked[k].result = Strategy(strategies[k], soup)
               /\ k < Len(invoked) => invoked[k].result = 0
        /\ risk_section = invoked[Len(invoked)].result
        /\ risk_section = 0 => Len(invoked) = Len(strategies)

\* C23 witness: the section marker strategy found nothing, the content
\* strategy returned its element, and the structure strategy, which would
\* have returned another element, was not called
C23_Witness ==
    /\ Len(invoked) = 2
    /\ invoked[1].result = 0
    /\ risk_section = invoked[2].result
    /\ risk_section # 0
    /\ FindByStructure(soup) \notin {0, risk_section}


\* ---------------------------------------------------------------------
\* Order and metadata of the result of _process_content
\* ---------------------------------------------------------------------
\* the entries from the k-th on are the joined words of runs of consecutive
\* paragraphs of paras, the runs following each other from position `from` on
RECURSIVE PlacedInOrder(_, _, _, _)
PlacedInOrder(entries, k, paras, from) ==
    IF k > Len(entries) THEN TRUE
    ELSE \E a \in from..Len(paras) : \E b \in a..Len(paras) :
            /\ entries[k].text = JoinWords(SubSeq(paras, a, b))
            /\ PlacedInOrder(entries, k + 1, paras, b + 1)

\* (C24) the entries returned by _process_content are, in their order, the
\* texts of runs of consecutive paragraphs of the cleaned input that follow
\* each other in the input
C24_DocumentOrder ==
    processed # NotCalled =>
        PlacedInOrder(processed.risk_factors, 1, cleaned_text, 1)

\* C24 witness: two entries with different texts were returned, the second
\* made of two paragraphs
C24_Witness ==
    /\ processed # NotCalled
    /\ Len(cleaned_text) = 3
    /\ Len(processed.risk_factors) = 2
    /\ processed.risk_factors[1].text = cleaned_text[1]
    /\ processed.risk_factors[2].text = cleaned_text[2] \o cleaned_text[3]
    /\ cleaned_text[3] # <<>>

\* (C28) in every result of _process_content total_risks is the number of
\* entries of risk_factors and total_words the sum of their word_count
C28_MetadataDescribesEntries ==
    processed # NotCalled =>
        /\ processed.metadata.total_risks = Len(processed.risk_factors)
        /\ processed.metadata.total_words = SumWordCount(processed.risk_factors)

\* C28: a group of 20 words was counted in the metadata and left out of
\* the entries
C28_UnfilteredTotalsReached ==
    /\ processed # NotCalled
    /\ cleaned_text = <<ParaLead(MinWords + 1), ParaLead(20)>>
    /\ Len(processed.risk_factors) = 1
    /\ processed.metadata.total_risks = 2
    /\ processed.metadata.total_words = MinWords + 21


\* ---------------------------------------------------------------------
\* RiskAnalyzer.compare_years on the entries _process_content returns
\* ---------------------------------------------------------------------
SegmentedEntries == {EntryOf(<<ParaLead(MinWords + 1)>>),
                     EntryOf(<<ParaLead(MinWords + 1), ParaPlain(30)>>),
                     EntryOf(<<ParaPlain(MinWords + 1)>>)}

InitCompareSegmented ==
    /\ current_risks \in SeqsUpTo(SegmentedEntries, MaxRisks)
    /\ previous_risks \in SeqsUpTo(SegmentedEntries, MaxRisks)
    /\ matches = NoResult
    /\ content_changes = NotCalled
    /\ llm_reply \in LlmReplies
    /\ llm_called = FALSE
    /\ comparison = NotCalled
    /\ IdleSimilarity /\ IdleExtractor /\ IdleSegmenter /\ IdleCleaner /\ IdleExtCleaner
    /\ IdleCli /\ IdleClient /\ IdleFetch /\ IdleRc /\ IdleStrategy

SpecCompareSegmented == InitCompareSegmented /\ [][NextCompareYears]_vars

\* (C25) compare_years on two non-empty lists of entries with the fields
\* text, word_count, char_count and summary returns a result with the
\* classified changes and their counts, not None
C25_SegmenterOutputAccepted ==
    (Compared /\ current_risks # <<>> /\ previous_risks # <<>>) =>
        /\ comparison # ReturnedNone
        /\ {"statistics", "content_changes"} \subseteq DOMAIN comparison

\* C25: both lists hold one entry of the segmenter and compare_years
\* returned None
C25_AbsentResultReached ==
    /\ Compared
    /\ current_risks = <<EntryOf(<<ParaLead(MinWords + 1)>>)>>
    /\ previous_risks = <<EntryOf(<<ParaLead(MinWords + 1), ParaPlain(30)>>)>>
    /\ comparison = ReturnedNone


\* (C29) the counts _analyze_content_changes reports agree with its inputs:
\* added + removed + modified = total_changes, modified + added is the
\* number of current entries and modified + removed the number of previous
\* entries
C29_CountsConsistent ==
    content_changes # NotCalled =>
        LET counts == content_changes.summary
        IN  /\ counts.added + counts.removed + counts.modified = counts.total_changes
            /\ counts.total_changes = Len(content_changes.changes)
            /\ counts.modified + counts.added = Len(current_risks)
            /\ counts.modified + counts.removed = Len(previous_risks)

\* C29 witness: one entry was modified, one added and one removed
C29_Witness ==
    /\ content_changes # NotCalled
    /\ content_changes.summary = [total_changes |-> 3, added |-> 1, removed |-> 1,
                                  modified |-> 1]
    /\ Len(current_risks) = 2 /\ Len(previous_risks) = 2


(***************************************************************************)
(* The grouping of sentences into paragraphs by the processors' _clean_text *)
(* (processors/text_extractor.py, lines 250-276).                          *)
(***************************************************************************)
\* a paragraph of n words whose second sentence is a lead-in of k words
ParaLeadInOf(n, k) == ParaLead(n - k) \o <<"If", "they">> \o Filler(k - 3) \o <<"risks.">>
\* one sentence, no lead-in, of more than 500 characters
ParaHalfLong == <<"However">> \o LongFiller(24) \o <<"risks.">>

GroupingParas == {ParaOneSentence(MinWords + 1), ParaTwoSentences(MinWords + 1),
                  ParaLeadInOf(MinWords + 11, MinSentenceWords),
                  ParaLeadInOf(MinWords + 11, MinSentenceWords + 1),
                  ParaLongWords(MinWords + 1), ParaHalfLong}

GroupingDocs == {ScenarioDoc(p1, p2, p3) : p1 \in GroupingParas, p2 \in GroupingParas,
                                             p3 \in GroupingParas}

InitGrouping ==
    /\ raw_text \in GroupingDocs
    /\ cleaned_text = NoResult
    /\ processed = NotCalled
    /\ recleaned = NoResult
    /\ IdleOtherCleaning

SpecGrouping == InitGrouping /\ [][NextCleanSegment]_vars

\* the sentences the loop of lines 256-272 visits
Sentences(t) == SplitSentences(Cleaned(t))

\* the position, in words, of the first word of the i-th of the word sequences
FirstWord(seqs, i) == Len(JoinWords(SubSeq(seqs, 1, i - 1))) + 1

\* sentence i of the sentences ss is the first sentence of one of the paragraphs ps
OpensParagraph(ss, ps, i) ==
    \E k \in DOMAIN ps : FirstWord(ps, k) = FirstWord(ss, i)

\* the sentences of the paragraph that sentence i belongs to, up to sentence i
OpenUpTo(ss, ps, i) ==
    SubSeq(ss, MaxOf({j \in 1..i : OpensParagraph(ss, ps, j)}), i)

Grouped == cleaned_text # NoResult

\* C30 as stated: every sentence that begins with a lead-in phrase starts a new
\* paragraph.
C30_EveryLeadInOpensParagraph ==
    Grouped =>
        LET ss == Sentences(raw_text)
            ps == Paragraphs(raw_text)
        IN  \A i \in DOMAIN ss : IsLeadIn(ss[i]) => OpensParagraph(ss, ps, i)

\* C30: the grouping has exactly two triggers: a sentence of more than five words
\* that begins with a lead-in phrase starts a new paragraph, and a paragraph is
\* closed as soon as its joined text exceeds 1000 characters; nothing else
\* splits, every paragraph is made of whole sentences, and the sentences keep
\* their order with none lost or duplicated.
C30_TwoTriggers ==
    Grouped =>
        LET ss == Sentences(raw_text)
            ps == Paragraphs(raw_text)
        IN  /\ JoinWords(ps) = JoinWords(ss)
            /\ \A k \in DOMAIN ps :
                   /\ ps[k] # <<>>
                   /\ \E i \in DOMAIN ss : FirstWord(ss, i) = FirstWord(ps, k)
            /\ \A i \in 2..Len(ss) :
                   OpensParagraph(ss, ps, i) <=>
                       \/ IsLeadIn(ss[i]) /\ WordCount(ss[i]) > MinSentenceWords
                       \/ JoinedChars(OpenUpTo(ss, ps, i - 1)) > MaxParaChars

\* a text where a lead-in sentence of more than five words opens a paragraph,
\* a sentence that is no lead-in opens one after the length test closed the
\* paragraph before it, and a lead-in sentence of five words opens none
C30_Witness ==
    /\ Grouped
    /\ LET ss == Sentences(raw_text)
           ps == Paragraphs(raw_text)
       IN  /\ \E i \in 2..Len(ss) :
                  /\ IsLeadIn(ss[i]) /\ WordCount(ss[i]) > MinSentenceWords
                  /\ JoinedChars(OpenUpTo(ss, ps, i - 1)) <= MaxParaChars
                  /\ OpensParagraph(ss, ps, i)
           /\ \E i \in 2..Len(ss) :
                  /\ ~IsLeadIn(ss[i])
                  /\ JoinedChars(OpenUpTo(ss, ps, i - 1)) > MaxParaChars
                  /\ OpensParagraph(ss, ps, i)
           /\ \E i \in 2..Len(ss) :
                  /\ IsLeadIn(ss[i]) /\ WordCount(ss[i]) = MinSentenceWords
                  /\ ~OpensParagraph(ss, ps, i)

====
